---- MODULE Spec2Model ----
(***************************************************************************)
(* getdoc: the diagnostic aggregation engine of src/main.rs.               *)
(*                                                                         *)
(* Strings of the program are sequences of one-character strings, so that  *)
(* format!, join, trim and sort act on them the way the code does.  The    *)
(* session of main() is a sequential state machine: the matrix builder,    *)
(* one probe per configuration (start, decode line by line, fold), the     *)
(* choice of report, the consolidation loop, the sort, the extraction and  *)
(* the report.                                                             *)
(***************************************************************************)
EXTENDS Integers, Sequences, FiniteSets, TLC

VARIABLES
    pc,                          \* position of main()
    cli_features,                \* CliArgs.features: Option<Vec<String>>
    cargo_toml,                  \* what the matrix builder found at Cargo.toml
    sets,                        \* get_feature_sets_to_check: the raw list `sets`
    builder_ok,                  \* get_feature_sets_to_check returned Ok
    feature_sets_to_check,       \* main: the list the probe loop iterates
    probe_idx,                   \* index of the configuration being probed
    cargo_output,                \* the captured outcome of the current cargo run
    line_idx,                    \* next stdout line to decode
    displayable_diagnostics,     \* run_cargo_check_with_features: records of this run
    implicated_files_this_run,   \* run_cargo_check_with_features: files of this run
    referencers_this_run,        \* run_cargo_check_with_features: backreferences
    all_displayable_diagnostics, \* main: (descriptor, records) per probe
    all_implicated_files_globally, \* main: global third-party file set
    global_file_referencers,     \* main: file -> set of DiagnosticOriginInfo
    probe_log,                   \* per probe: the arguments cargo got, what it returned
    consolidated_diagnostic_instances, \* main: key -> AggregatedDiagnosticInstance
    unique_explanations,         \* main: code -> explanation
    cons_run,                    \* consolidation loop: index of the run
    cons_diag,                   \* consolidation loop: index of the record in the run
    current_dir,                 \* std::env::current_dir(): the project root
    cargo_home_dir,              \* home::cargo_home().ok()
    root_diag_data,              \* the tree process_single_diagnostic_data is given
    sorted_consolidated_diagnostics, \* main: the aggregated diagnostics, sorted
    report,                      \* what there is of report.md
    exit_code,                   \* the exit code of the process, -1 while it runs
    sorted_file_paths,           \* main: the global file set, sorted
    extracted_data,              \* main: file -> the items extracted from it
    file_sections                \* the file sections of a report.md written in full

vars == << pc, cli_features, cargo_toml, sets, builder_ok, feature_sets_to_check, probe_idx,
           cargo_output, line_idx, displayable_diagnostics,
           implicated_files_this_run, referencers_this_run,
           all_displayable_diagnostics, all_implicated_files_globally,
           global_file_referencers, probe_log,
           consolidated_diagnostic_instances, unique_explanations,
           cons_run, cons_diag, current_dir, cargo_home_dir, root_diag_data,
           sorted_consolidated_diagnostics, report, exit_code,
           sorted_file_paths, extracted_data, file_sections >>

\* What a session finds around it and does not change.
environment == << current_dir, cargo_home_dir, root_diag_data >>

\* What the end of main() writes.
outcome == << sorted_consolidated_diagnostics, report, exit_code,
             sorted_file_paths, extracted_data, file_sections >>

\* What the inspection of the files and the sections of the report leave.
extraction == << sorted_file_paths, extracted_data, file_sections >>

(***************************************************************************)
(* Strings                                                                 *)
(***************************************************************************)

\* The characters the model uses, in byte order (Rust compares String bytewise).
Alphabet ==
    << " ", "'", "(", ")", ",", "-", "/", "0", "1", "2", "3", "4", "5", "6",
       "7", "8", "9", ":", ";", "A", "E", "N", "U", "a", "b", "c", "d", "e",
       "f", "g", "h", "i", "k", "l", "m", "n", "o", "p", "r", "s", "t", "u",
       "w", "x", "y", "z" >>

Ord(c) == CHOOSE i \in 1..Len(Alphabet) : Alphabet[i] = c

\* <str as Ord>::cmp(a, b) = Less: the bytes of the common length are compared,
\* then the lengths.
StrLess(a, b) ==
    LET n == IF Len(a) < Len(b) THEN Len(a) ELSE Len(b)
        diffs == { i \in 1..n : a[i] # b[i] }
    IN IF diffs = { } THEN Len(a) < Len(b)
       ELSE LET first == CHOOSE i \in diffs : \A j \in diffs : i <= j
            IN Ord(a[first]) < Ord(b[first])

\* [String]::join(sep)
RECURSIVE Join(_, _)
Join(parts, sep) ==
    IF parts = << >> THEN << >>
    ELSE IF Len(parts) = 1 THEN parts[1]
    ELSE parts[1] \o sep \o Join(Tail(parts), sep)

\* Vec<String>::sort(): a stable sort, here by insertion.
RECURSIVE InsertString(_, _)
InsertString(x, s) ==
    IF s = << >> THEN << x >>
    ELSE IF StrLess(x, Head(s)) THEN << x >> \o s
    ELSE << Head(s) >> \o InsertString(x, Tail(s))

RECURSIVE SortStrings(_)
SortStrings(s) ==
    IF s = << >> THEN << >>
    ELSE InsertString(s[Len(s)], SortStrings(SubSeq(s, 1, Len(s) - 1)))

Range(s) == { s[i] : i \in DOMAIN s }

\* usize as Display: decimal digits
RECURSIVE Digits(_)
Digits(n) ==
    IF n < 10 THEN << Alphabet[Ord("0") + n] >>
    ELSE Digits(n \div 10) \o << Alphabet[Ord("0") + (n % 10)] >>

(***************************************************************************)
(* Configuration matrix builder                                            *)
(***************************************************************************)

FEATURES == << "-", "-", "f", "e", "a", "t", "u", "r", "e", "s" >>
NO_DEFAULT_FEATURES ==
    << "-", "-", "n", "o", "-", "d", "e", "f", "a", "u", "l", "t", "-",
       "f", "e", "a", "t", "u", "r", "e", "s" >>
ALL_FEATURES ==
    << "-", "-", "a", "l", "l", "-", "f", "e", "a", "t", "u", "r", "e", "s" >>
DEFAULT == << "d", "e", "f", "a", "u", "l", "t" >>

\* Bounds of the inputs of the matrix builder.
MaxGroups == 2
MaxFocus == 2

\* Names a manifest may declare as feature groups, and names a focus list may hold.
FeatureNames == { DEFAULT, << "x" >>, << "y" >> }
FocusNames == { << "x" >>, << "y" >> }

\* Sequences without repetition over S of length at most n.
InjSeqs(S, n) ==
    UNION { { s \in [1..k -> S] : \A i, j \in 1..k : s[i] = s[j] => i = j } : k \in 0..n }

SeqsUpTo(S, n) == UNION { [1..k -> S] : k \in 0..n }

\* Option<Vec<String>> of the --features argument.
NoFeatures == [some |-> FALSE, targets |-> << >>]
SomeFeatures(targets) == [some |-> TRUE, targets |-> targets]
CliChoices == { NoFeatures } \cup { SomeFeatures(t) : t \in SeqsUpTo(FocusNames, MaxFocus) }

\* What Cargo.toml can be: absent, unreadable, not a manifest, or a manifest
\* whose [features] table declares `decl` in this order.
Manifest(state, decl) == [state |-> state, decl |-> decl]
Manifests ==
    { Manifest(st, << >>) : st \in { "missing", "unreadable", "unparsable" } }
        \cup { Manifest("parsed", d) : d \in InjSeqs(FeatureNames, MaxGroups) }

\* HashMap::keys(): an iteration over the keys in an order the map chooses.
KeysOrders(decl) == { o \in InjSeqs(Range(decl), Len(decl)) : Len(o) = Len(decl) }

\* Mutant of TargetedSets: the baseline configuration is not pushed.
TargetedSetsWithoutBaseline(targets) ==
    IF targets = << >> THEN << << >> >>
    ELSE LET features_arg_string == Join(targets, << "," >>)
         IN << << FEATURES, features_arg_string >>,
               << NO_DEFAULT_FEATURES, FEATURES, features_arg_string >> >>

\* lines 363-382: the targeted branch.
TargetedSets(targets) ==
    IF targets = << >> THEN << << >> >>
    ELSE LET features_arg_string == Join(targets, << "," >>)
         IN << << FEATURES, features_arg_string >>,
               << NO_DEFAULT_FEATURES, FEATURES, features_arg_string >>,
               << >> >>

\* lines 399-407: one configuration per key other than "default", in key order.
RECURSIVE PerFeatureSets(_)
PerFeatureSets(keys) ==
    IF keys = << >> THEN << >>
    ELSE (IF Head(keys) # DEFAULT
          THEN << << NO_DEFAULT_FEATURES, FEATURES, Head(keys) >> >>
          ELSE << >>) \o PerFeatureSets(Tail(keys))

\* Mutant of ComprehensiveSets: the feature table is not tested for emptiness.
ComprehensiveSetsUnguarded(manifest, keys) ==
    << << >> >> \o
    (IF manifest.state = "parsed"
     THEN << << NO_DEFAULT_FEATURES >> >> \o PerFeatureSets(keys)
              \o << << ALL_FEATURES >> >>
     ELSE << >>)

\* lines 383-423: the comprehensive branch; keys is the order HashMap::keys() gave.
ComprehensiveSets(manifest, keys) ==
    << << >> >> \o
    (IF manifest.state = "parsed" /\ manifest.decl # << >>
     THEN << << NO_DEFAULT_FEATURES >> >> \o PerFeatureSets(keys)
              \o << << ALL_FEATURES >> >>
     ELSE << >>)

\* lines 428-430: the canonical key of a configuration.
SetKey(set) == Join(SortStrings(set), << " " >>)

\* Mutant of InsertIsNew: the test inverted.
InsertIsNewInverted(unique_sets_str, set_key) == set_key \in unique_sets_str

\* HashSet::insert(set_key) returning true: the key was not yet in the set.
InsertIsNew(unique_sets_str, set_key) == set_key \notin unique_sets_str

\* lines 425-435: keep the first configuration of every canonical key.
RECURSIVE UniqueSets(_, _)
UniqueSets(rest, unique_sets_str) ==
    IF rest = << >> THEN << >>
    ELSE LET set_key == SetKey(Head(rest))
         IN (IF InsertIsNew(unique_sets_str, set_key) THEN << Head(rest) >> ELSE << >>)
                \o UniqueSets(Tail(rest), unique_sets_str \cup { set_key })

\* lines 196-200: the display descriptor of a configuration.
FeatureDesc(feature_args) ==
    IF feature_args = << >>
    THEN << "d", "e", "f", "a", "u", "l", "t", " ", "f", "e", "a", "t", "u", "r", "e", "s" >>
    ELSE Join(feature_args, << " " >>)

(***************************************************************************)
(* Paths and the file system                                               *)
(***************************************************************************)

None == [some |-> FALSE, val |-> << >>]
Some(v) == [some |-> TRUE, val |-> v]

\* Split a path at '/', dropping empty components (Path::components); cur is the
\* part of the first component that precedes p.
RECURSIVE SplitPath(_, _)
SplitPath(p, cur) ==
    LET q == cur \o p
    IN IF \A i \in DOMAIN q : q[i] # "/"
       THEN (IF q = << >> THEN << >> ELSE << q >>)
       ELSE LET i == CHOOSE j \in DOMAIN q : q[j] = "/"
            IN SplitPath(SubSeq(q, 1, i - 1), << >>)
                   \o SplitPath(SubSeq(q, i + 1, Len(q)), << >>)

\* Path::is_absolute
IsAbsolute(p) == p # << >> /\ p[1] = "/"

\* Path::components: the root, if any, then the normal components.
Components(p) == (IF IsAbsolute(p) THEN << << "/" >> >> ELSE << >>) \o SplitPath(p, << >>)

IsPrefix(a, b) == Len(a) <= Len(b) /\ SubSeq(b, 1, Len(a)) = a

\* Path::starts_with: whole components only.
StartsWith(p, base) == IsPrefix(Components(base), Components(p))

\* Path::join of a relative path onto a directory.
PathJoin(base, rel) == base \o << "/" >> \o rel

\* Path::strip_prefix(base).unwrap_or(p)
StripPrefixOr(p, base) ==
    IF StartsWith(p, base)
    THEN Join(SubSeq(Components(p), Len(Components(base)) + 1, Len(Components(p))), << "/" >>)
    ELSE p

\* Path::file_name().unwrap_or_default(): the last normal component.
FileName(p) ==
    LET c == SplitPath(p, << >>) IN IF c = << >> THEN << >> ELSE c[Len(c)]

\* <Path as Ord>::cmp = Less: component by component, each bytewise.
RECURSIVE CompsLess(_, _)
CompsLess(a, b) ==
    IF b = << >> THEN FALSE
    ELSE IF a = << >> THEN TRUE
    ELSE IF Head(a) = Head(b) THEN CompsLess(Tail(a), Tail(b))
    ELSE StrLess(Head(a), Head(b))

PathLess(p, q) == CompsLess(Components(p), Components(q))

\* The directory the sessions run in, and the cargo home of the machine.
WorkDir == << "/", "w" >>
CargoHome == << "/", "c" >>

REGISTRY == << "r", "e", "g", "i", "s", "t", "r", "y" >>
SRC == << "s", "r", "c" >>
GIT == << "g", "i", "t" >>
CHECKOUTS == << "c", "h", "e", "c", "k", "o", "u", "t", "s" >>

RegistrySrc(ch) == PathJoin(PathJoin(ch, REGISTRY), SRC)
GitCheckouts(ch) == PathJoin(PathJoin(ch, GIT), CHECKOUTS)

\* Files and directories of the machine the session runs on.
PathA == PathJoin(RegistrySrc(CargoHome), << "a" >>)
PathB == PathJoin(RegistrySrc(CargoHome), << "b" >>)
\* a file below a directory named "a:a:1;" that mirrors the registry path of b
PathAB == PathA \o << ":", "a", ":", "1", ";" >> \o PathB
PathG == PathJoin(GitCheckouts(CargoHome), << "g" >>)
PathD == PathJoin(RegistrySrc(CargoHome), << "d" >>)
PathZ == PathJoin(RegistrySrc(CargoHome), << "z" >>)
PathM == PathJoin(WorkDir, << "m" >>)
PathL == PathJoin(WorkDir, << "l" >>)
PathO == << "/", "o", "/", "e" >>
\* a cargo home that lies inside the project, and a registry file in it
NestedCargoHome == PathJoin(WorkDir, << "c" >>)
PathN == PathJoin(RegistrySrc(NestedCargoHome), << "a" >>)

FsFiles == { PathA, PathB, PathAB, PathG, PathM, PathO, PathN }
FsDirs == { PathD, WorkDir }
\* symbolic links: /w/l points at the registry file a
FsLinks == [ p \in { PathL } |-> PathA ]

\* fs::canonicalize: Ok(resolved path) of an existing entry, Err otherwise.
Canonicalize(p) ==
    IF p \in DOMAIN FsLinks THEN Some(FsLinks[p])
    ELSE IF p \in FsFiles \cup FsDirs THEN Some(p)
    ELSE None

\* Path::is_file on a canonical path
IsFile(p) == p \in FsFiles

(***************************************************************************)
(* Diagnostic tree walker                                                  *)
(***************************************************************************)

NON_PRIMARY == << " ", "(", "n", "o", "n", "-", "p", "r", "i", "m", "a", "r", "y", ")" >>
UNKNOWN_LOCATION ==
    << "U", "n", "k", "n", "o", "w", "n", " ", "d", "i", "a", "g", "n", "o", "s", "t",
       "i", "c", " ", "l", "o", "c", "a", "t", "i", "o", "n" >>

\* lines 521-529 and 537-545: the path a location shows.
DisplayPath(file_name) ==
    IF IsAbsolute(file_name) THEN StripPrefixOr(file_name, current_dir) ELSE file_name

\* format!("{}:{}", a, b)
Colon(a, b) == a \o << ":" >> \o b

\* Mutant of FirstPrimary: the loop has no break, a later primary span overwrites
\* an earlier one.
LastPrimary(spans) ==
    LET primaries == { i \in DOMAIN spans : spans[i].is_primary }
    IN IF primaries = { } THEN None
       ELSE Some(spans[CHOOSE i \in primaries : \A j \in primaries : j <= i])

\* lines 519-534: the first span flagged primary, if any.
RECURSIVE FirstPrimary(_)
FirstPrimary(spans) ==
    IF spans = << >> THEN None
    ELSE IF Head(spans).is_primary THEN Some(Head(spans))
    ELSE FirstPrimary(Tail(spans))

\* lines 516-554: final_primary_loc_str
PrimaryLocation(spans) ==
    LET fp == FirstPrimary(spans)
    IN IF fp.some
       THEN Colon(DisplayPath(fp.val.file_name), Digits(fp.val.line_start))
       ELSE IF spans # << >>
            THEN Colon(DisplayPath(spans[1].file_name), Digits(spans[1].line_start))
                     \o NON_PRIMARY
            ELSE UNKNOWN_LOCATION

\* Mutant of ClassifyThirdParty: the canonical path is not tested against the
\* project root.
ClassifyWithoutProjectTest(file_name) ==
    LET absolute_path ==
            IF IsAbsolute(file_name) THEN file_name ELSE PathJoin(current_dir, file_name)
        canonical == Canonicalize(absolute_path)
    IN IF ~canonical.some THEN None
       ELSE IF cargo_home_dir.some
                 /\ (\/ StartsWith(canonical.val, RegistrySrc(cargo_home_dir.val))
                     \/ StartsWith(canonical.val, GitCheckouts(cargo_home_dir.val)))
                 /\ IsFile(canonical.val)
            THEN canonical
            ELSE None

\* lines 557-573: Some(canonical path) when the span's file is a third-party file.
ClassifyThirdParty(file_name) ==
    LET absolute_path ==
            IF IsAbsolute(file_name) THEN file_name ELSE PathJoin(current_dir, file_name)
        canonical == Canonicalize(absolute_path)
    IN IF ~canonical.some THEN None
       ELSE IF StartsWith(canonical.val, current_dir) THEN None
       ELSE LET is_in_cargo_registry ==
                    cargo_home_dir.some
                        /\ StartsWith(canonical.val, RegistrySrc(cargo_home_dir.val))
                is_in_cargo_git ==
                    cargo_home_dir.some
                        /\ StartsWith(canonical.val, GitCheckouts(cargo_home_dir.val))
            IN IF (is_in_cargo_registry \/ is_in_cargo_git) /\ IsFile(canonical.val)
               THEN canonical
               ELSE None

\* Mutant of OriginInfo: the backreference has no code.
OriginInfoWithoutCode(diag_data, loc, feature_desc) ==
    [ level |-> diag_data.level,
      code |-> None,
      originating_diagnostic_span_location |-> loc,
      feature_set_desc |-> feature_desc ]

\* lines 591-596
OriginInfo(diag_data, loc, feature_desc) ==
    [ level |-> diag_data.level,
      code |-> IF diag_data.code.some THEN Some(diag_data.code.val.code) ELSE None,
      originating_diagnostic_span_location |-> loc,
      feature_set_desc |-> feature_desc ]

\* HashMap::entry(k).or_default().insert(v) on a map of sets
MapInsert(map, k, v) ==
    [ q \in DOMAIN map \cup { k } |->
        (IF q \in DOMAIN map THEN map[q] ELSE { }) \cup (IF q = k THEN { v } ELSE { }) ]

\* lines 556-604: the span loop.  st = [details, files, refs].
RECURSIVE SpanLoop(_, _, _, _, _)
SpanLoop(spans, diag_data, loc, feature_desc, st) ==
    IF spans = << >> THEN st
    ELSE LET span == Head(spans)
             tp == ClassifyThirdParty(span.file_name)
             tp_file_detail == Colon(FileName(tp.val), Digits(span.line_start))
             pair == << tp.val, tp_file_detail >>
             next ==
                 IF ~tp.some THEN st
                 ELSE [ details |->
                            IF pair \in Range(st.details) THEN st.details
                            ELSE Append(st.details, pair),
                        files |-> st.files \cup { tp.val },
                        refs |-> MapInsert(st.refs, tp.val,
                                           OriginInfo(diag_data, loc, feature_desc)) ]
         IN SpanLoop(Tail(spans), diag_data, loc, feature_desc, next)

\* line 607: the comparison of the sort of the implicated-file list.
DetailLess(a, b) == PathLess(a[1], b[1]) \/ (a[1] = b[1] /\ StrLess(a[2], b[2]))

RECURSIVE InsertDetail(_, _)
InsertDetail(x, s) ==
    IF s = << >> THEN << x >>
    ELSE IF DetailLess(x, Head(s)) THEN << x >> \o s
    ELSE << Head(s) >> \o InsertDetail(x, Tail(s))

\* Mutant of SortDetails: the list is left in the order of the spans.
SortDetailsKeepOrder(s) == s

\* lines 606-607: sort_by (path, detail), stable.
RECURSIVE SortDetails(_)
SortDetails(s) ==
    IF s = << >> THEN << >>
    ELSE InsertDetail(s[Len(s)], SortDetails(SubSeq(s, 1, Len(s) - 1)))

IsSpace(c) == c = " "

\* str::trim_end
RECURSIVE TrimEnd(_)
TrimEnd(s) ==
    IF s = << >> THEN << >>
    ELSE IF IsSpace(s[Len(s)]) THEN TrimEnd(SubSeq(s, 1, Len(s) - 1))
    ELSE s

\* str::trim().is_empty()
TrimIsEmpty(s) == \A i \in DOMAIN s : IsSpace(s[i])

\* Mutant of EmittedRecords: a node without implicated files emits nothing.
EmittedRecordsWithFilesOnly(diag_data, loc, details) ==
    IF (diag_data.level = "error" \/ diag_data.level = "warning")
        /\ diag_data.rendered.some
        /\ ~TrimIsEmpty(diag_data.rendered.val)
        /\ details # << >>
    THEN << [ level |-> diag_data.level,
              code |-> IF diag_data.code.some THEN Some(diag_data.code.val.code) ELSE None,
              code_explanation |->
                  IF diag_data.code.some THEN diag_data.code.val.explanation ELSE None,
              rendered |-> TrimEnd(diag_data.rendered.val),
              primary_location_of_diagnostic |-> loc,
              implicated_third_party_files_details |-> details ] >>
    ELSE << >>

\* lines 609-626: the record the node emits, as a list of zero or one record.
EmittedRecords(diag_data, loc, details) ==
    IF (diag_data.level = "error" \/ diag_data.level = "warning")
        /\ diag_data.rendered.some
        /\ ~TrimIsEmpty(diag_data.rendered.val)
    THEN << [ level |-> diag_data.level,
              code |-> IF diag_data.code.some THEN Some(diag_data.code.val.code) ELSE None,
              code_explanation |->
                  IF diag_data.code.some THEN diag_data.code.val.explanation ELSE None,
              rendered |-> TrimEnd(diag_data.rendered.val),
              primary_location_of_diagnostic |-> loc,
              implicated_third_party_files_details |-> details ] >>
    ELSE << >>

\* lines 507-639: process_single_diagnostic_data.  acc = [diags, files, refs] are the
\* three accumulators the caller passes by mutable reference.
RECURSIVE ProcessSingleDiagnosticData(_, _, _)
RECURSIVE ProcessChildren(_, _, _)
ProcessSingleDiagnosticData(diag_data, acc, feature_desc) ==
    LET loc == PrimaryLocation(diag_data.spans)
        st == SpanLoop(diag_data.spans, diag_data, loc, feature_desc,
                       [details |-> << >>, files |-> acc.files, refs |-> acc.refs])
        own == [ diags |-> acc.diags
                             \o EmittedRecords(diag_data, loc, SortDetails(st.details)),
                 files |-> st.files,
                 refs |-> st.refs ]
    IN ProcessChildren(diag_data.children, own, feature_desc)

\* Mutant of ProcessChildren: only the first child is walked.
ProcessFirstChildOnly(children, acc, feature_desc) ==
    IF children = << >> THEN acc
    ELSE ProcessSingleDiagnosticData(Head(children), acc, feature_desc)

\* lines 628-638: the recursion into the children, in order.
ProcessChildren(children, acc, feature_desc) ==
    IF children = << >> THEN acc
    ELSE ProcessChildren(Tail(children),
                         ProcessSingleDiagnosticData(Head(children), acc, feature_desc),
                         feature_desc)

(***************************************************************************)
(* What cargo can print                                                    *)
(***************************************************************************)

Span(file_name, is_primary, line_start) ==
    [ file_name |-> file_name, is_primary |-> is_primary, line_start |-> line_start ]

Node(level, code, spans, children, rendered) ==
    [ level |-> level, code |-> code, spans |-> spans, children |-> children,
      rendered |-> rendered ]

ErrorCode(code, explanation) == Some([ code |-> code, explanation |-> explanation ])

E1 == << "E", "1" >>
E2 == << "E", "2" >>
SpanM1 == Span(<< "m" >>, TRUE, 1)

\* an error in the project, with a warning child that differs in level only and a
\* note that points into the registry
DiagBase ==
    Node("error", ErrorCode(E1, Some(<< "e" >>)), << SpanM1 >>,
         << Node("warning", ErrorCode(E1, Some(<< "f" >>)), << SpanM1 >>, << >>,
                 Some(<< "m" >>)),
            Node("note", None, << Span(PathA, FALSE, 1) >>, << >>, None) >>,
         Some(<< "m" >>))

\* two primary spans; children that differ from DiagBase in one field each
DiagCode ==
    Node("error", ErrorCode(E2, None), << SpanM1, Span(<< "m" >>, TRUE, 2) >>,
         << Node("error", ErrorCode(E1, Some(<< " " >>)), << Span(PathM, TRUE, 2) >>,
                 << >>, Some(<< "m" >>)),
            Node("error", ErrorCode(E1, None), << SpanM1 >>, << >>, Some(<< "n" >>)),
            Node("error", None, << SpanM1 >>, << >>, Some(<< "m" >>)) >>,
         Some(<< "m" >>))

\* the fields of DiagBase, implicating the registry files a and b
DiagTwo ==
    Node("error", ErrorCode(E1, Some(<< "e" >>)),
         << SpanM1, Span(PathB, FALSE, 1), Span(PathA, FALSE, 1), Span(PathB, FALSE, 1) >>,
         << >>, Some(<< "m" >>))

\* the fields of DiagBase, implicating the one registry file below "a:a:1;"
DiagOne ==
    Node("error", ErrorCode(E1, Some(<< "e" >>)),
         << SpanM1, Span(PathAB, FALSE, 1) >>, << >>, Some(<< "m", " " >>))

\* a warning inside a dependency, the same place again in a child note, and spans
\* that are a link, a directory, a missing file and a file outside every root
DiagWarn ==
    Node("warning", None,
         << Span(PathD, FALSE, 1), Span(PathA, TRUE, 2), Span(PathL, FALSE, 2),
            Span(PathZ, FALSE, 1), Span(PathO, FALSE, 1) >>,
         << Node("note", None, << Span(PathA, TRUE, 2) >>, << >>, Some(<< "n" >>)) >>,
         Some(<< "n" >>))

\* nodes that emit nothing: a note in a git checkout, an error whose text is blank
DiagNote ==
    Node("note", None, << Span(PathG, TRUE, 1) >>,
         << Node("error", None, << >>, << >>, Some(<< " " >>)) >>, Some(<< "n" >>))

\* The lines cargo may print, by name: text that is no JSON object, a message of
\* another kind, a compiler-message without a message, one compiler-message per
\* tree above, and the line of the note after a blank.
DiagnosticLines == { "base", "code", "two", "one", "warn", "note" }
StdoutLines == { "text", "build-finished", "no-message", "indented" } \cup DiagnosticLines

\* The tree a diagnostic line carries.
DiagnosticOf(line) ==
    CASE line = "base" -> DiagBase
      [] line = "code" -> DiagCode
      [] line = "two" -> DiagTwo
      [] line = "one" -> DiagOne
      [] line = "warn" -> DiagWarn
      [] line = "note" -> DiagNote

\* line 478: line.trim().is_empty() || !line.starts_with('{')
SkipsLine(line) == line \in { "text", "indented" }

\* line 481: serde_json::from_str::<TopLevelCargoMessage>(line), None for Err.  The
\* parser passes over white space before the object.
RECURSIVE FromStr(_)
FromStr(line) ==
    IF line = "text" THEN None
    ELSE IF line = "indented" THEN FromStr("note")
    ELSE IF line = "build-finished"
         THEN Some([ reason |-> "build-finished", message |-> None ])
         ELSE IF line = "no-message"
              THEN Some([ reason |-> "compiler-message", message |-> None ])
              ELSE Some([ reason |-> "compiler-message",
                          message |-> Some(DiagnosticOf(line)) ])

\* lines 478-481: the message of a line, None for a line that is skipped or does
\* not decode.
DecodeMessage(line) == IF SkipsLine(line) THEN None ELSE FromStr(line)

\* The number of stdout lines of a whole session is bounded.
MaxLines == 2

\* The text of the io::Error of a cargo that cannot be started.
IoErrors == { << "e" >> }

ERROR_RUNNING ==
    << "E", "r", "r", "o", "r", " ", "r", "u", "n", "n", "i", "n", "g", " ",
       "c", "a", "r", "g", "o", " ", "c", "h", "e", "c", "k", " ", "w", "i", "t", "h", " ",
       "c", "o", "n", "f", "i", "g", "u", "r", "a", "t", "i", "o", "n", " ", "'" >>

LinesUsed(log) ==
    LET RECURSIVE Sum(_)
        Sum(i) == IF i = 0 THEN 0 ELSE Sum(i - 1) + Len(log[i].lines)
    IN Sum(Len(log))

(***************************************************************************)
(* Consolidation                                                           *)
(***************************************************************************)

\* lines 151-161: DisplayableDiagnostic::get_implicated_files_signature
RECURSIVE SignatureParts(_)
SignatureParts(details) ==
    IF details = << >> THEN << >>
    ELSE << Colon(Head(details)[1], Head(details)[2]) >> \o SignatureParts(Tail(details))

GetImplicatedFilesSignature(diag_disp) ==
    Join(SortStrings(SignatureParts(diag_disp.implicated_third_party_files_details)),
         << ";" >>)

\* Mutant of InstanceKey: the level is left out of the key.
InstanceKeyWithoutLevel(diag_disp) ==
    [ level |-> "",
      code |-> diag_disp.code,
      primary_location |-> diag_disp.primary_location_of_diagnostic,
      rendered_message |-> diag_disp.rendered,
      implicated_files_signature |-> GetImplicatedFilesSignature(diag_disp) ]

\* lines 290-296: DiagnosticInstanceKey
InstanceKey(diag_disp) ==
    [ level |-> diag_disp.level,
      code |-> diag_disp.code,
      primary_location |-> diag_disp.primary_location_of_diagnostic,
      rendered_message |-> diag_disp.rendered,
      implicated_files_signature |-> GetImplicatedFilesSignature(diag_disp) ]

\* lines 130-146: AggregatedDiagnosticInstance::new
NewAggregated(diag_disp, feature_desc) ==
    [ level |-> diag_disp.level,
      code |-> diag_disp.code,
      rendered_message |-> diag_disp.rendered,
      primary_location |-> diag_disp.primary_location_of_diagnostic,
      implicated_third_party_files_details |->
          diag_disp.implicated_third_party_files_details,
      feature_set_descriptors |-> { feature_desc } ]

\* Mutant of Consolidate: the descriptor of a later occurrence is not inserted.
ConsolidateFirstOnly(map, diag_disp, feature_desc) ==
    LET key == InstanceKey(diag_disp)
    IN [ k \in DOMAIN map \cup { key } |->
           IF k \in DOMAIN map THEN map[k] ELSE NewAggregated(diag_disp, feature_desc) ]

\* Mutant of Consolidate: insert instead of or_insert, a later occurrence replaces
\* the entry.
ConsolidateOverwrite(map, diag_disp, feature_desc) ==
    LET key == InstanceKey(diag_disp)
    IN [ k \in DOMAIN map \cup { key } |->
           IF k = key THEN NewAggregated(diag_disp, feature_desc) ELSE map[k] ]

\* lines 298-304: entry(key).or_insert_with(new), then insert the descriptor.
Consolidate(map, diag_disp, feature_desc) ==
    LET key == InstanceKey(diag_disp)
        entry == IF key \in DOMAIN map THEN map[key]
                 ELSE NewAggregated(diag_disp, feature_desc)
    IN [ k \in DOMAIN map \cup { key } |->
           IF k = key
           THEN [ entry EXCEPT !.feature_set_descriptors = @ \cup { feature_desc } ]
           ELSE map[k] ]

\* Mutant of CollectExplanation: insert instead of entry().or_insert_with(), a later
\* explanation replaces the one the code had.
CollectExplanationOverwrite(map, diag_disp) ==
    IF diag_disp.code.some /\ diag_disp.code_explanation.some
        /\ ~TrimIsEmpty(diag_disp.code_explanation.val)
    THEN [ c \in DOMAIN map \cup { diag_disp.code.val } |->
             IF c = diag_disp.code.val THEN diag_disp.code_explanation.val ELSE map[c] ]
    ELSE map

\* lines 281-288: the first non-blank explanation of a code is kept.
CollectExplanation(map, diag_disp) ==
    IF diag_disp.code.some /\ diag_disp.code_explanation.some
        /\ ~TrimIsEmpty(diag_disp.code_explanation.val)
        /\ diag_disp.code.val \notin DOMAIN map
    THEN [ c \in DOMAIN map \cup { diag_disp.code.val } |->
             IF c \in DOMAIN map THEN map[c] ELSE diag_disp.code_explanation.val ]
    ELSE map

EmptyMap == [ k \in { } |-> { } ]

(***************************************************************************)
(* The session: main()                                                     *)
(***************************************************************************)

\* The arguments and manifests of the sessions that are followed to their report.
SessionInputs ==
    { [ cli |-> SomeFeatures(<< << "x" >> >>), manifest |-> Manifest("missing", << >>) ],
      [ cli |-> NoFeatures, manifest |-> Manifest("missing", << >>) ] }

\* No tree: the walker has not been handed one.
NoTree == << >>

InitSession ==
    /\ pc = "start"
    /\ sets = << >>
    /\ builder_ok = TRUE
    /\ feature_sets_to_check = << >>
    /\ probe_idx = 1
    /\ cargo_output = [ ok |-> TRUE, lines |-> << >>, err |-> << >> ]
    /\ line_idx = 1
    /\ displayable_diagnostics = << >>
    /\ implicated_files_this_run = { }
    /\ referencers_this_run = EmptyMap
    /\ all_displayable_diagnostics = << >>
    /\ all_implicated_files_globally = { }
    /\ global_file_referencers = EmptyMap
    /\ probe_log = << >>
    /\ consolidated_diagnostic_instances = EmptyMap
    /\ unique_explanations = EmptyMap
    /\ cons_run = 1
    /\ cons_diag = 1
    /\ sorted_consolidated_diagnostics = << >>
    /\ report = "none"
    /\ exit_code = -1
    /\ sorted_file_paths = << >>
    /\ extracted_data = EmptyMap
    /\ file_sections = << >>

Init ==
    /\ \E inp \in SessionInputs : cli_features = inp.cli /\ cargo_toml = inp.manifest
    /\ current_dir = WorkDir
    /\ cargo_home_dir = Some(CargoHome)
    /\ root_diag_data = NoTree
    /\ InitSession

\* Every argument and every manifest within the bounds, for the matrix builder.
InitMatrix ==
    /\ cli_features \in CliChoices
    /\ cargo_toml \in Manifests
    /\ current_dir = WorkDir
    /\ cargo_home_dir = Some(CargoHome)
    /\ root_diag_data = NoTree
    /\ InitSession

\* lines 358-436: get_feature_sets_to_check returns Ok(unique_sets_vec) on every path.
GetFeatureSetsToCheck(raw) == [ ok |-> TRUE, val |-> UniqueSets(raw, { }) ]

\* lines 177-188: main takes the list, or a minimal one if the builder failed.
FeatureSetsOrFallback(result, context_features) ==
    IF result.ok THEN result.val
    ELSE IF context_features.some /\ context_features.targets # << >>
         THEN << << FEATURES, Join(context_features.targets, << "," >>) >> >>
         ELSE << << >> >>

\* lines 168-188 and 358-436: the matrix is built; in comprehensive mode the
\* builder reads Cargo.toml and iterates the keys of its feature table.
BuildMatrix ==
    /\ pc = "start"
    /\ \E keys \in (IF cli_features.some THEN { << >> } ELSE KeysOrders(cargo_toml.decl)) :
         LET raw == IF cli_features.some THEN TargetedSets(cli_features.targets)
                    ELSE ComprehensiveSets(cargo_toml, keys)
         IN /\ sets' = raw
            /\ builder_ok' = GetFeatureSetsToCheck(raw).ok
            /\ feature_sets_to_check' =
                   FeatureSetsOrFallback(GetFeatureSetsToCheck(raw), cli_features)
    /\ pc' = "probe"
    /\ UNCHANGED << cli_features, cargo_toml, probe_idx, cargo_output, line_idx,
                    displayable_diagnostics, implicated_files_this_run,
                    referencers_this_run, all_displayable_diagnostics,
                    all_implicated_files_globally, global_file_referencers, probe_log,
                    consolidated_diagnostic_instances, unique_explanations,
                    cons_run, cons_diag >>
    /\ UNCHANGED environment
    /\ UNCHANGED outcome

\* lines 195-206 and 449-475: cargo runs for the next configuration and its whole
\* output is captured, or it cannot be started.
RunCargoCheck ==
    /\ pc = "probe"
    /\ probe_idx <= Len(feature_sets_to_check)
    /\ \E out \in { [ ok |-> FALSE, lines |-> << >>, err |-> e ] : e \in IoErrors }
              \cup { [ ok |-> TRUE, lines |-> l, err |-> << >> ] :
                       l \in SeqsUpTo(StdoutLines, MaxLines - LinesUsed(probe_log)) } :
         /\ cargo_output' = out
         /\ probe_log' = Append(probe_log,
                                [ args |-> feature_sets_to_check[probe_idx],
                                  ok |-> out.ok, lines |-> out.lines, err |-> out.err ])
         /\ pc' = IF out.ok THEN "decode" ELSE "failed"
    /\ line_idx' = 1
    /\ displayable_diagnostics' = << >>
    /\ implicated_files_this_run' = { }
    /\ referencers_this_run' = EmptyMap
    /\ UNCHANGED << cli_features, cargo_toml, sets, builder_ok, feature_sets_to_check, probe_idx,
                    all_displayable_diagnostics, all_implicated_files_globally,
                    global_file_referencers, consolidated_diagnostic_instances,
                    unique_explanations, cons_run, cons_diag >>
    /\ UNCHANGED environment
    /\ UNCHANGED outcome

\* lines 477-499: one line of the captured stdout is decoded.
DecodeLine ==
    /\ pc = "decode"
    /\ line_idx <= Len(cargo_output.lines)
    /\ LET top_level_msg == DecodeMessage(cargo_output.lines[line_idx])
           feature_desc == FeatureDesc(feature_sets_to_check[probe_idx])
           acc == IF /\ top_level_msg.some
                     /\ top_level_msg.val.reason = "compiler-message"
                     /\ top_level_msg.val.message.some
                  THEN ProcessSingleDiagnosticData(
                           top_level_msg.val.message.val,
                           [ diags |-> displayable_diagnostics,
                             files |-> implicated_files_this_run,
                             refs |-> referencers_this_run ],
                           feature_desc)
                  ELSE [ diags |-> displayable_diagnostics,
                         files |-> implicated_files_this_run,
                         refs |-> referencers_this_run ]
       IN /\ displayable_diagnostics' = acc.diags
          /\ implicated_files_this_run' = acc.files
          /\ referencers_this_run' = acc.refs
    /\ line_idx' = line_idx + 1
    /\ UNCHANGED << pc, cli_features, cargo_toml, sets, builder_ok, feature_sets_to_check, probe_idx,
                    cargo_output, all_displayable_diagnostics,
                    all_implicated_files_globally, global_file_referencers, probe_log,
                    consolidated_diagnostic_instances, unique_explanations,
                    cons_run, cons_diag >>
    /\ UNCHANGED environment
    /\ UNCHANGED outcome

\* Mutant of MergeReferencers: insert instead of extend, the origins of the run
\* replace those the file had.
MergeReferencersReplace(global, run) ==
    [ f \in DOMAIN global \cup DOMAIN run |->
        IF f \in DOMAIN run THEN run[f] ELSE global[f] ]

\* Mutant of MergeReferencers: only files the index already knows are merged.
MergeReferencersKnownFiles(global, run) ==
    [ f \in DOMAIN global |->
        global[f] \cup (IF f \in DOMAIN run THEN run[f] ELSE { }) ]

\* lines 212-217: the backreferences of a run are merged file by file.
MergeReferencers(global, run) ==
    [ f \in DOMAIN global \cup DOMAIN run |->
        (IF f \in DOMAIN global THEN global[f] ELSE { })
            \cup (IF f \in DOMAIN run THEN run[f] ELSE { }) ]

\* Mutant of FoldRun: the records of the run are not pushed to the list of the
\* session.
FoldRunWithoutRecords ==
    /\ pc = "decode"
    /\ line_idx > Len(cargo_output.lines)
    /\ all_displayable_diagnostics' = all_displayable_diagnostics
    /\ all_implicated_files_globally' =
           all_implicated_files_globally \cup implicated_files_this_run
    /\ global_file_referencers' =
           MergeReferencers(global_file_referencers, referencers_this_run)
    /\ probe_idx' = probe_idx + 1
    /\ pc' = "probe"
    /\ UNCHANGED << cli_features, cargo_toml, sets, builder_ok, feature_sets_to_check,
                    cargo_output, line_idx, displayable_diagnostics,
                    implicated_files_this_run, referencers_this_run, probe_log,
                    consolidated_diagnostic_instances, unique_explanations,
                    cons_run, cons_diag >>
    /\ UNCHANGED environment
    /\ UNCHANGED outcome

\* lines 207-218: the Ok arm; the results of the run are folded into the session.
FoldRun ==
    /\ pc = "decode"
    /\ line_idx > Len(cargo_output.lines)
    /\ all_displayable_diagnostics' =
           IF displayable_diagnostics # << >>
           THEN Append(all_displayable_diagnostics,
                       << FeatureDesc(feature_sets_to_check[probe_idx]),
                          displayable_diagnostics >>)
           ELSE all_displayable_diagnostics
    /\ all_implicated_files_globally' =
           all_implicated_files_globally \cup implicated_files_this_run
    /\ global_file_referencers' =
           MergeReferencers(global_file_referencers, referencers_this_run)
    /\ probe_idx' = probe_idx + 1
    /\ pc' = "probe"
    /\ UNCHANGED << cli_features, cargo_toml, sets, builder_ok, feature_sets_to_check,
                    cargo_output, line_idx, displayable_diagnostics,
                    implicated_files_this_run, referencers_this_run, probe_log,
                    consolidated_diagnostic_instances, unique_explanations,
                    cons_run, cons_diag >>
    /\ UNCHANGED environment
    /\ UNCHANGED outcome

\* Mutant of ToolErrorRecord: the record is an error of the compiler.
ToolErrorRecordAsError(feature_desc, e) ==
    [ level |-> "error",
      code |-> None,
      code_explanation |-> None,
      rendered |-> ERROR_RUNNING \o feature_desc \o << "'", ":", " " >> \o e,
      primary_location_of_diagnostic |-> << "N", "/", "A" >>,
      implicated_third_party_files_details |-> << >> ]

\* Mutant of ToolErrorRecord: the text does not name the configuration.
ToolErrorRecordWithoutDescriptor(feature_desc, e) ==
    [ level |-> "TOOL_ERROR",
      code |-> None,
      code_explanation |-> None,
      rendered |-> ERROR_RUNNING \o << "'", ":", " " >> \o e,
      primary_location_of_diagnostic |-> << "N", "/", "A" >>,
      implicated_third_party_files_details |-> << >> ]

\* lines 220-235: the synthetic record of a probe that could not run.
ToolErrorRecord(feature_desc, e) ==
    [ level |-> "TOOL_ERROR",
      code |-> None,
      code_explanation |-> None,
      rendered |-> ERROR_RUNNING \o feature_desc \o << "'", ":", " " >> \o e,
      primary_location_of_diagnostic |-> << "N", "/", "A" >>,
      implicated_third_party_files_details |-> << >> ]

\* Mutant of FoldError: a probe that failed ends the loop.
FoldErrorEndsLoop ==
    /\ pc = "failed"
    /\ LET feature_desc == FeatureDesc(feature_sets_to_check[probe_idx])
       IN all_displayable_diagnostics' =
              Append(all_displayable_diagnostics,
                     << feature_desc, << ToolErrorRecord(feature_desc, cargo_output.err) >> >>)
    /\ probe_idx' = Len(feature_sets_to_check) + 1
    /\ pc' = "probe"
    /\ UNCHANGED << cli_features, cargo_toml, sets, builder_ok, feature_sets_to_check,
                    cargo_output, line_idx, displayable_diagnostics,
                    implicated_files_this_run, referencers_this_run,
                    all_implicated_files_globally, global_file_referencers, probe_log,
                    consolidated_diagnostic_instances, unique_explanations,
                    cons_run, cons_diag >>
    /\ UNCHANGED environment
    /\ UNCHANGED outcome

\* lines 219-236: the Err arm.
FoldError ==
    /\ pc = "failed"
    /\ LET feature_desc == FeatureDesc(feature_sets_to_check[probe_idx])
       IN all_displayable_diagnostics' =
              Append(all_displayable_diagnostics,
                     << feature_desc, << ToolErrorRecord(feature_desc, cargo_output.err) >> >>)
    /\ probe_idx' = probe_idx + 1
    /\ pc' = "probe"
    /\ UNCHANGED << cli_features, cargo_toml, sets, builder_ok, feature_sets_to_check,
                    cargo_output, line_idx, displayable_diagnostics,
                    implicated_files_this_run, referencers_this_run,
                    all_implicated_files_globally, global_file_referencers, probe_log,
                    consolidated_diagnostic_instances, unique_explanations,
                    cons_run, cons_diag >>
    /\ UNCHANGED environment
    /\ UNCHANGED outcome

\* Mutant of NothingToReport: the global file set is not looked at.
NothingToReportRecordsOnly ==
    \A i \in DOMAIN all_displayable_diagnostics :
        all_displayable_diagnostics[i][2] = << >>

\* lines 249-252: nothing to report.
NothingToReport ==
    /\ \A i \in DOMAIN all_displayable_diagnostics :
          all_displayable_diagnostics[i][2] = << >>
    /\ all_implicated_files_globally = { }

\* Mutant of ExitCode: an error of main is not turned into a failure.
ExitCodeAlwaysSuccess(main_ok) == 0

\* line 166: main returns Result<(), Box<dyn Error>>; Ok(()) exits with 0 and an
\* Err with 1.
ExitCode(main_ok) == IF main_ok THEN 0 ELSE 1

\* What becomes of report.md: File::create fails; a writeln! fails when the buffer
\* is written through; only the flush of the buffer as it is dropped fails, which
\* nobody sees; all of it is written.
MinimalReportOutcomes == { "create_failed", "flush_failed", "written" }
FullReportOutcomes == { "create_failed", "write_failed", "flush_failed", "written" }

\* The document an outcome leaves behind.
ReportAfter(result, complete) ==
    IF result = "create_failed" THEN "none"
    ELSE IF result = "written" THEN complete
    ELSE "partial"

\* The `?` of File::create and of every writeln! returns the error from main.
MainOk(result) == result \notin { "create_failed", "write_failed" }

\* lines 249-270: the minimal report.  Its two lines fit the buffer, so that no
\* writeln! of it fails.
MinimalReport ==
    /\ pc = "probe"
    /\ probe_idx > Len(feature_sets_to_check)
    /\ NothingToReport
    /\ \E result \in MinimalReportOutcomes :
          /\ report' = ReportAfter(result, "minimal")
          /\ exit_code' = ExitCode(MainOk(result))
    /\ pc' = "minimal_report"
    /\ UNCHANGED << cli_features, cargo_toml, sets, builder_ok, feature_sets_to_check, probe_idx,
                    cargo_output, line_idx, displayable_diagnostics,
                    implicated_files_this_run, referencers_this_run,
                    all_displayable_diagnostics, all_implicated_files_globally,
                    global_file_referencers, probe_log,
                    consolidated_diagnostic_instances, unique_explanations,
                    cons_run, cons_diag, sorted_consolidated_diagnostics >>
    /\ UNCHANGED environment
    /\ UNCHANGED extraction

\* lines 272-279: the consolidation starts with empty maps.
BeginConsolidation ==
    /\ pc = "probe"
    /\ probe_idx > Len(feature_sets_to_check)
    /\ ~NothingToReport
    /\ consolidated_diagnostic_instances' = EmptyMap
    /\ unique_explanations' = EmptyMap
    /\ cons_run' = 1
    /\ cons_diag' = 1
    /\ pc' = "consolidate"
    /\ UNCHANGED << cli_features, cargo_toml, sets, builder_ok, feature_sets_to_check, probe_idx,
                    cargo_output, line_idx, displayable_diagnostics,
                    implicated_files_this_run, referencers_this_run,
                    all_displayable_diagnostics, all_implicated_files_globally,
                    global_file_referencers, probe_log >>
    /\ UNCHANGED environment
    /\ UNCHANGED outcome

\* lines 279-306: one record is consolidated.
ConsolidateRecord ==
    /\ pc = "consolidate"
    /\ cons_run <= Len(all_displayable_diagnostics)
    /\ LET feature_desc == all_displayable_diagnostics[cons_run][1]
           diagnostics_for_run == all_displayable_diagnostics[cons_run][2]
           diag_disp == diagnostics_for_run[cons_diag]
       IN /\ unique_explanations' = CollectExplanation(unique_explanations, diag_disp)
          /\ consolidated_diagnostic_instances' =
                 Consolidate(consolidated_diagnostic_instances, diag_disp, feature_desc)
          /\ IF cons_diag < Len(diagnostics_for_run)
             THEN cons_diag' = cons_diag + 1 /\ cons_run' = cons_run
             ELSE cons_diag' = 1 /\ cons_run' = cons_run + 1
    /\ UNCHANGED << pc, cli_features, cargo_toml, sets, builder_ok, feature_sets_to_check, probe_idx,
                    cargo_output, line_idx, displayable_diagnostics,
                    implicated_files_this_run, referencers_this_run,
                    all_displayable_diagnostics, all_implicated_files_globally,
                    global_file_referencers, probe_log >>
    /\ UNCHANGED environment
    /\ UNCHANGED outcome

\* Mutant of EndConsolidation: the loop over the runs starts again.
EndConsolidationStartsOver ==
    /\ pc = "consolidate"
    /\ cons_run > Len(all_displayable_diagnostics)
    /\ cons_run' = 1
    /\ cons_diag' = 1
    /\ UNCHANGED << pc, cli_features, cargo_toml, sets, builder_ok, feature_sets_to_check, probe_idx,
                    cargo_output, line_idx, displayable_diagnostics,
                    implicated_files_this_run, referencers_this_run,
                    all_displayable_diagnostics, all_implicated_files_globally,
                    global_file_referencers, probe_log,
                    consolidated_diagnostic_instances, unique_explanations >>
    /\ UNCHANGED environment
    /\ UNCHANGED outcome

\* line 306: the consolidation loop ends.
EndConsolidation ==
    /\ pc = "consolidate"
    /\ cons_run > Len(all_displayable_diagnostics)
    /\ pc' = "consolidated"
    /\ UNCHANGED << cli_features, cargo_toml, sets, builder_ok, feature_sets_to_check, probe_idx,
                    cargo_output, line_idx, displayable_diagnostics,
                    implicated_files_this_run, referencers_this_run,
                    all_displayable_diagnostics, all_implicated_files_globally,
                    global_file_referencers, probe_log,
                    consolidated_diagnostic_instances, unique_explanations,
                    cons_run, cons_diag >>
    /\ UNCHANGED environment
    /\ UNCHANGED outcome

\* Option<String>::cmp = Less: None before Some.
OptionLess(a, b) ==
    IF ~b.some THEN FALSE
    ELSE IF ~a.some THEN TRUE
    ELSE StrLess(a.val, b.val)

\* lines 310-315: the comparison of the sort, Less.
AggregatedLess(a, b) ==
    \/ StrLess(a.primary_location, b.primary_location)
    \/ /\ a.primary_location = b.primary_location
       /\ \/ OptionLess(a.code, b.code)
          \/ /\ a.code = b.code
             /\ StrLess(a.rendered_message, b.rendered_message)

\* lines 308-315: into_values() hands out the values of the map in an order the
\* map chooses and sort_by is stable; the outcomes are the sorted lists of the
\* values, equal ones in any order.
RECURSIVE SortedArrangements(_)
SortedArrangements(values) ==
    IF values = { } THEN { << >> }
    ELSE UNION { { << first >> \o rest : rest \in SortedArrangements(values \ { first }) } :
                 first \in { v \in values : \A w \in values : ~AggregatedLess(w, v) } }

\* HashMap::into_values
IntoValues(map) == { map[k] : k \in DOMAIN map }

\* lines 308-315: the aggregated diagnostics are collected and sorted.
SortConsolidated ==
    /\ pc = "consolidated"
    /\ sorted_consolidated_diagnostics'
           \in SortedArrangements(IntoValues(consolidated_diagnostic_instances))
    /\ pc' = "sorted"
    /\ UNCHANGED << cli_features, cargo_toml, sets, builder_ok, feature_sets_to_check, probe_idx,
                    cargo_output, line_idx, displayable_diagnostics,
                    implicated_files_this_run, referencers_this_run,
                    all_displayable_diagnostics, all_implicated_files_globally,
                    global_file_referencers, probe_log,
                    consolidated_diagnostic_instances, unique_explanations,
                    cons_run, cons_diag, report, exit_code >>
    /\ UNCHANGED environment
    /\ UNCHANGED extraction

\* What extract_items_from_file finds in the files of the machine: the registry
\* file a has one item, the file below "a:a:1;" does not parse, and every other
\* file parses and has no item to show.
ITEM == << "f", "n" >>

ExtractItemsFromFile(file_path) ==
    IF file_path = PathA THEN [ ok |-> TRUE, items |-> << ITEM >> ]
    ELSE IF file_path = PathAB THEN [ ok |-> FALSE, items |-> << >> ]
    ELSE [ ok |-> TRUE, items |-> << >> ]

\* lines 318-319: Vec<PathBuf>::sort() of the paths of a set.
RECURSIVE SortPaths(_)
SortPaths(paths) ==
    IF paths = { } THEN << >>
    ELSE LET first == CHOOSE p \in paths : \A q \in paths : ~PathLess(q, p)
         IN << first >> \o SortPaths(paths \ { first })

\* lines 321-340: only a file that parses and has items gets an entry.
ExtractedData(paths) ==
    [ p \in { q \in paths : ExtractItemsFromFile(q).ok
                               /\ ExtractItemsFromFile(q).items # << >> } |->
        ExtractItemsFromFile(p).items ]

\* The characters of the level of a node of the compiler.
LevelChars(level) ==
    CASE level = "error" -> << "e", "r", "r", "o", "r" >>
      [] level = "warning" -> << "w", "a", "r", "n", "i", "n", "g" >>
      [] level = "note" -> << "n", "o", "t", "e" >>

\* #[derive(Ord)] of DiagnosticOriginInfo = Less: field by field, as declared.
OriginLess(a, b) ==
    \/ StrLess(LevelChars(a.level), LevelChars(b.level))
    \/ /\ a.level = b.level
       /\ \/ OptionLess(a.code, b.code)
          \/ /\ a.code = b.code
             /\ \/ StrLess(a.originating_diagnostic_span_location,
                           b.originating_diagnostic_span_location)
                \/ /\ a.originating_diagnostic_span_location
                          = b.originating_diagnostic_span_location
                   /\ StrLess(a.feature_set_desc, b.feature_set_desc)

\* lines 1223-1224: the origins of a file, sorted.
RECURSIVE SortOrigins(_)
SortOrigins(origins) ==
    IF origins = { } THEN << >>
    ELSE LET first == CHOOSE o \in origins : \A q \in origins : ~OriginLess(q, o)
         IN << first >> \o SortOrigins(origins \ { first })

\* lines 1217-1314: the section of one file, as a list of zero or one section: its
\* heading, its "Referenced by" list and its items, or the sentence that none
\* were extracted.
FileSection(file_path, data, file_referencers) ==
    IF file_path \in DOMAIN data \/ file_path \in DOMAIN file_referencers
    THEN << [ file |-> file_path,
              origins |-> IF file_path \in DOMAIN file_referencers
                          THEN SortOrigins(file_referencers[file_path])
                          ELSE << >>,
              items |-> IF file_path \in DOMAIN data THEN Some(data[file_path])
                        ELSE None ] >>
    ELSE << >>

RECURSIVE FileSectionsOf(_, _, _)
FileSectionsOf(paths, data, file_referencers) ==
    IF paths = << >> THEN << >>
    ELSE FileSection(Head(paths), data, file_referencers)
             \o FileSectionsOf(Tail(paths), data, file_referencers)

\* lines 1196-1316: section C of the report.  With nothing extracted at all there
\* is one sentence and no file section.
FileSections(paths, data, file_referencers) ==
    IF DOMAIN data = { } THEN << >>
    ELSE FileSectionsOf(paths, data, file_referencers)

\* lines 317-352: the files are inspected, a failure of which is only logged, and
\* generate_markdown_report writes report.md.
GenerateReport ==
    /\ pc = "sorted"
    /\ LET paths == SortPaths(all_implicated_files_globally)
           data == ExtractedData(all_implicated_files_globally)
       IN /\ sorted_file_paths' = paths
          /\ extracted_data' = data
          /\ \E result \in FullReportOutcomes :
                /\ report' = ReportAfter(result, "full")
                /\ exit_code' = ExitCode(MainOk(result))
                /\ file_sections' =
                       IF result = "written"
                       THEN FileSections(paths, data, global_file_referencers)
                       ELSE << >>
    /\ pc' = "done"
    /\ UNCHANGED << cli_features, cargo_toml, sets, builder_ok, feature_sets_to_check, probe_idx,
                    cargo_output, line_idx, displayable_diagnostics,
                    implicated_files_this_run, referencers_this_run,
                    all_displayable_diagnostics, all_implicated_files_globally,
                    global_file_referencers, probe_log,
                    consolidated_diagnostic_instances, unique_explanations,
                    cons_run, cons_diag, sorted_consolidated_diagnostics >>
    /\ UNCHANGED environment

Next ==
    \/ BuildMatrix
    \/ RunCargoCheck
    \/ DecodeLine
    \/ FoldRun
    \/ FoldError
    \/ MinimalReport
    \/ BeginConsolidation
    \/ ConsolidateRecord
    \/ EndConsolidation
    \/ SortConsolidated
    \/ GenerateReport

Spec == Init /\ [][Next]_vars

\* Whether main() has returned (its exit code is set).
Returned == exit_code # -1

\* main() is one sequential thread and cargo returns from every run: until main
\* has returned, its next step is taken.
SpecFair == Init /\ [][Next]_vars /\ ([]<>Returned \/ []<><<Next>>_vars)

\* The matrix builder alone, over every input within the bounds.
NextMatrix == BuildMatrix

SpecMatrix == InitMatrix /\ [][NextMatrix]_vars

(***************************************************************************)
(* The walker on its own: process_single_diagnostic_data on one tree        *)
(***************************************************************************)

\* Bounds of the trees the walker is given.
MaxSpans == 3
MaxChildren == 2

\* What home::cargo_home().ok() can be.
CargoHomes == { Some(CargoHome), Some(NestedCargoHome), None }

Levels == { "error", "warning", "note" }
Renderings == { None, Some(<< " " >>), Some(<< "m", " " >>) }

\* Files a span can name: in the project (relative), in the registry, a link to
\* the registry, a missing file, a directory, a file outside every root, a file
\* in the cargo home inside the project, a file in a git checkout.
SpanFiles == { << "m" >>, PathA, PathB, PathL, PathZ, PathD, PathO, PathN, PathG }

\* Trees of one node with one span: every level and text with every kind of file.
OneSpanTrees ==
    { Node(l, None, << Span(f, pr, 1) >>, << >>, r) :
        l \in Levels, r \in Renderings, f \in SpanFiles, pr \in BOOLEAN }

\* Spans that meet in the implicated-file list: two lines of the registry file a,
\* the link to it, and the registry file b.
ListSpans ==
    { Span(PathA, FALSE, 2), Span(PathA, FALSE, 10), Span(PathL, FALSE, 2),
      Span(PathB, TRUE, 1) }

\* An error with up to MaxSpans of those spans, alone or with a child note that
\* has one of them.
ManySpanTrees ==
    { Node("error", ErrorCode(E1, None), spans, children, Some(<< "m" >>)) :
        spans \in SeqsUpTo(ListSpans, MaxSpans),
        children \in { << >> } \cup
                     { << Node("note", None, << sp >>, << >>, Some(<< "n" >>)) >> :
                         sp \in ListSpans } }

\* The nodes of the deep trees, without their children: an error in a file that
\* is missing, a warning and a note in registry files.
NodeKinds ==
    { [ level |-> "error", spans |-> << Span(PathZ, TRUE, 1) >>, rendered |-> Some(<< "m" >>) ],
      [ level |-> "warning", spans |-> << Span(PathA, TRUE, 1) >>, rendered |-> Some(<< "n" >>) ],
      [ level |-> "note", spans |-> << Span(PathB, TRUE, 1) >>, rendered |-> Some(<< "n" >>) ] }

TreesOver(subtrees, n) ==
    { Node(k.level, None, k.spans, children, k.rendered) :
        k \in NodeKinds, children \in SeqsUpTo(subtrees, n) }

\* Trees three levels deep, the root with up to MaxChildren children.
DeepTrees == TreesOver(TreesOver(TreesOver({ }, 0), 1), MaxChildren)

\* Spans that compete for the primary location: two flagged primary, in a project
\* file and in a registry file, and one that is not.
LocationSpans ==
    { Span(<< "m" >>, TRUE, 1), Span(PathA, TRUE, 2), Span(PathB, FALSE, 3) }

\* An error or a note with up to MaxSpans of those spans.
LocationTrees ==
    { Node(l, None, spans, << >>, Some(<< "m" >>)) :
        l \in { "error", "note" }, spans \in SeqsUpTo(LocationSpans, MaxSpans) }

\* The trees with the cargo homes they are walked under: the trees of one span
\* under every cargo home, the others under the cargo home outside the project.
WalkInputs ==
    { [ tree |-> t, home |-> h ] : t \in OneSpanTrees, h \in CargoHomes }
        \cup { [ tree |-> t, home |-> Some(CargoHome) ] :
                   t \in ManySpanTrees \cup DeepTrees \cup LocationTrees }

InitWalker ==
    /\ pc = "walk"
    /\ \E input \in WalkInputs :
          /\ root_diag_data = input.tree
          /\ cargo_home_dir = input.home
    /\ current_dir = WorkDir
    /\ cli_features = NoFeatures
    /\ cargo_toml = Manifest("missing", << >>)
    /\ sets = << << >> >>
    /\ builder_ok = TRUE
    /\ feature_sets_to_check = << << >> >>
    /\ probe_idx = 1
    /\ cargo_output = [ ok |-> TRUE, lines |-> << >>, err |-> << >> ]
    /\ line_idx = 1
    /\ displayable_diagnostics = << >>
    /\ implicated_files_this_run = { }
    /\ referencers_this_run = EmptyMap
    /\ all_displayable_diagnostics = << >>
    /\ all_implicated_files_globally = { }
    /\ global_file_referencers = EmptyMap
    /\ probe_log = << >>
    /\ consolidated_diagnostic_instances = EmptyMap
    /\ unique_explanations = EmptyMap
    /\ cons_run = 1
    /\ cons_diag = 1
    /\ sorted_consolidated_diagnostics = << >>
    /\ report = "none"
    /\ exit_code = -1
    /\ sorted_file_paths = << >>
    /\ extracted_data = EmptyMap
    /\ file_sections = << >>

\* lines 485-493: process_single_diagnostic_data is called on a tree with the three
\* accumulators of the run.
WalkTree ==
    /\ pc = "walk"
    /\ LET acc == ProcessSingleDiagnosticData(
                      root_diag_data,
                      [ diags |-> displayable_diagnostics,
                        files |-> implicated_files_this_run,
                        refs |-> referencers_this_run ],
                      FeatureDesc(feature_sets_to_check[probe_idx]))
       IN /\ displayable_diagnostics' = acc.diags
          /\ implicated_files_this_run' = acc.files
          /\ referencers_this_run' = acc.refs
    /\ pc' = "walked"
    /\ UNCHANGED << cli_features, cargo_toml, sets, builder_ok, feature_sets_to_check, probe_idx,
                    cargo_output, line_idx, all_displayable_diagnostics,
                    all_implicated_files_globally, global_file_referencers, probe_log,
                    consolidated_diagnostic_instances, unique_explanations,
                    cons_run, cons_diag >>
    /\ UNCHANGED environment
    /\ UNCHANGED outcome

NextWalker == WalkTree

SpecWalker == InitWalker /\ [][NextWalker]_vars

(***************************************************************************)
(* Properties of the consolidation                                         *)
(***************************************************************************)

Consolidating == pc \in { "consolidate", "consolidated", "sorted", "done" }

\* The records the consolidation loop has gone through, each with the descriptor
\* of its probe and its position.
Processed ==
    IF ~Consolidating THEN { }
    ELSE UNION { { [ run |-> i, idx |-> j,
                     desc |-> all_displayable_diagnostics[i][1],
                     rec |-> all_displayable_diagnostics[i][2][j] ] :
                   j \in { n \in DOMAIN all_displayable_diagnostics[i][2] :
                             i < cons_run \/ (i = cons_run /\ n < cons_diag) } } :
                 i \in DOMAIN all_displayable_diagnostics }

\* The five identity fields of a record and of an aggregated diagnostic.
RecordIdentity(rec) ==
    << rec.level, rec.code, rec.primary_location_of_diagnostic, rec.rendered,
       GetImplicatedFilesSignature(rec) >>

EntryIdentity(agg) ==
    << agg.level, agg.code, agg.primary_location, agg.rendered_message,
       GetImplicatedFilesSignature(agg) >>

\* The aggregated diagnostics an occurrence ended up in.
EntriesOf(p) ==
    { k \in DOMAIN consolidated_diagnostic_instances :
        /\ EntryIdentity(consolidated_diagnostic_instances[k]) = RecordIdentity(p.rec)
        /\ p.desc \in consolidated_diagnostic_instances[k].feature_set_descriptors }

\* C1: every consolidated record is in exactly one aggregated diagnostic, two
\* records are in the same one iff they agree on the five identity fields, and no
\* two aggregated diagnostics have equal identity fields.
C1_MergeIffSameIdentity ==
    LET entries == { << EntryIdentity(consolidated_diagnostic_instances[k]),
                        consolidated_diagnostic_instances[k].feature_set_descriptors >> :
                     k \in DOMAIN consolidated_diagnostic_instances }
        records == { << RecordIdentity(p.rec), p.desc >> : p \in Processed }
        Holds(e, r) == e[1] = r[1] /\ r[2] \in e[2]
    IN /\ Cardinality({ e[1] : e \in entries })
             = Cardinality(DOMAIN consolidated_diagnostic_instances)
       /\ { e[1] : e \in entries } = { r[1] : r \in records }
       /\ \A r \in records : Cardinality({ e \in entries : Holds(e, r) }) = 1
       /\ \A r1, r2 \in records :
             (\E e \in entries : Holds(e, r1) /\ Holds(e, r2)) <=> (r1[1] = r2[1])

\* Two records of different probes merged, and two records that differ in the
\* level alone kept apart.
C1_Witness ==
    /\ pc = "consolidated"
    /\ \E p, q \in Processed :
          /\ p.desc # q.desc
          /\ EntriesOf(p) = EntriesOf(q)
    /\ \E p, q \in Processed :
          /\ p.rec.level # q.rec.level
          /\ [ p.rec EXCEPT !.level = q.rec.level, !.code_explanation = q.rec.code_explanation ]
                 = q.rec
          /\ EntriesOf(p) # EntriesOf(q)

FileSet(rec) == Range(rec.implicated_third_party_files_details)

\* An aggregated diagnostic that shows the record: its level, code, location,
\* text and implicated files.
Shows(agg, rec) ==
    /\ agg.level = rec.level
    /\ agg.code = rec.code
    /\ agg.primary_location = rec.primary_location_of_diagnostic
    /\ agg.rendered_message = rec.rendered
    /\ Range(agg.implicated_third_party_files_details) = FileSet(rec)

SameButFiles(r1, r2) ==
    /\ r1.level = r2.level
    /\ r1.code = r2.code
    /\ r1.primary_location_of_diagnostic = r2.primary_location_of_diagnostic
    /\ r1.rendered = r2.rendered
    /\ FileSet(r1) # FileSet(r2)

\* C2: two consolidated records equal in level, code, location and text whose
\* implicated files differ as sets of (path, detail) pairs are in two distinct
\* aggregated diagnostics, each with the files of its record.
C2_DifferentFilesNeverMerge ==
    \A p, q \in Processed :
        SameButFiles(p.rec, q.rec) =>
            \E k1, k2 \in DOMAIN consolidated_diagnostic_instances :
                /\ k1 # k2
                /\ Shows(consolidated_diagnostic_instances[k1], p.rec)
                /\ Shows(consolidated_diagnostic_instances[k2], q.rec)

\* The error and warning nodes of a tree, in the order the walker meets them,
\* without their children.
RECURSIVE ReportableNodes(_)
RECURSIVE ReportableOfChildren(_)
ReportableNodes(node) ==
    (IF node.level \in { "error", "warning" }
     THEN << [ level |-> node.level, code |-> node.code, spans |-> node.spans,
               rendered |-> node.rendered ] >>
     ELSE << >>) \o ReportableOfChildren(node.children)

ReportableOfChildren(children) ==
    IF children = << >> THEN << >>
    ELSE ReportableNodes(Head(children)) \o ReportableOfChildren(Tail(children))

\* The error and warning nodes of all the trees a probe printed.
RECURSIVE ReportableOfLines(_)
ReportableOfLines(lines) ==
    IF lines = << >> THEN << >>
    ELSE (IF Head(lines) \in DiagnosticLines
          THEN ReportableNodes(DiagnosticOf(Head(lines)))
          ELSE << >>) \o ReportableOfLines(Tail(lines))

\* Two probes that ran and printed the same trees, as far as errors and warnings go.
SameTrees(i, j) ==
    /\ i # j
    /\ probe_log[i].ok
    /\ probe_log[j].ok
    /\ ReportableOfLines(probe_log[i].lines) = ReportableOfLines(probe_log[j].lines)

DescOf(i) == FeatureDesc(feature_sets_to_check[i])

\* The aggregated diagnostics with the identity of a record.
EntriesLike(rec) ==
    { k \in DOMAIN consolidated_diagnostic_instances :
        EntryIdentity(consolidated_diagnostic_instances[k]) = RecordIdentity(rec) }

\* C3: when two configurations printed the same trees (restricted to error and
\* warning nodes), every record of those trees has exactly one aggregated
\* diagnostic after consolidation, and it names both configurations.
C3_SameTreesOneEntry ==
    pc = "consolidated" =>
        \A i, j \in DOMAIN probe_log :
            SameTrees(i, j) =>
                \A p \in Processed :
                    p.desc = DescOf(i) =>
                        /\ Cardinality(EntriesLike(p.rec)) = 1
                        /\ \A k \in EntriesLike(p.rec) :
                              { DescOf(i), DescOf(j) } \subseteq
                                  consolidated_diagnostic_instances[k].feature_set_descriptors

\* Two configurations printed the same tree and it gave a record.
C3_Witness ==
    /\ pc = "consolidated"
    /\ \E i, j \in DOMAIN probe_log :
          /\ SameTrees(i, j)
          /\ \E p \in Processed :
                /\ p.desc = DescOf(i)
                /\ \E k \in EntriesLike(p.rec) :
                      { DescOf(i), DescOf(j) } \subseteq
                          consolidated_diagnostic_instances[k].feature_set_descriptors

Earlier(p, q) == p.run < q.run \/ (p.run = q.run /\ p.idx <= q.idx)

WithoutDescriptors(agg) == [ agg EXCEPT !.feature_set_descriptors = { } ]

\* C4: the descriptor set of an aggregated diagnostic is never empty and never
\* loses a descriptor, no aggregated diagnostic is removed, and its level, code,
\* text, location and implicated-file list are those of its first occurrence.
C4_DescriptorsOnlyGrow ==
    /\ [](LET occurrences == { << RecordIdentity(p.rec), p >> : p \in Processed }
          IN \A k \in DOMAIN consolidated_diagnostic_instances :
               LET agg == consolidated_diagnostic_instances[k]
                   identity == EntryIdentity(agg)
                   same == { o[2] : o \in { o \in occurrences : o[1] = identity } }
               IN /\ agg.feature_set_descriptors # { }
                  /\ \E p \in same :
                        /\ \A q \in same : Earlier(p, q)
                        /\ agg.level = p.rec.level
                        /\ agg.code = p.rec.code
                        /\ agg.rendered_message = p.rec.rendered
                        /\ agg.primary_location = p.rec.primary_location_of_diagnostic
                        /\ agg.implicated_third_party_files_details
                               = p.rec.implicated_third_party_files_details
                        /\ p.desc \in agg.feature_set_descriptors)
    /\ [][\A k \in DOMAIN consolidated_diagnostic_instances :
            /\ k \in DOMAIN consolidated_diagnostic_instances'
            /\ consolidated_diagnostic_instances[k].feature_set_descriptors
                   \subseteq consolidated_diagnostic_instances'[k].feature_set_descriptors
            /\ WithoutDescriptors(consolidated_diagnostic_instances'[k])
                   = WithoutDescriptors(consolidated_diagnostic_instances[k])]_vars

\* An aggregated diagnostic gained a second descriptor, and one took a later
\* record whose implicated files are not those of its first occurrence.
C4_Witness ==
    /\ \E k \in DOMAIN consolidated_diagnostic_instances :
          Cardinality(consolidated_diagnostic_instances[k].feature_set_descriptors) >= 2
    /\ \E k \in DOMAIN consolidated_diagnostic_instances :
          \E p \in Processed :
              /\ k \in EntriesOf(p)
              /\ p.rec.implicated_third_party_files_details
                     # consolidated_diagnostic_instances[k].implicated_third_party_files_details

(***************************************************************************)
(* Properties of the file indices                                          *)
(***************************************************************************)

\* C5: the global file set and the backreference set of every file only grow.
C5_IndicesOnlyGrow ==
    [][/\ all_implicated_files_globally \subseteq all_implicated_files_globally'
       /\ \A f \in DOMAIN global_file_referencers :
             /\ f \in DOMAIN global_file_referencers'
             /\ global_file_referencers[f] \subseteq global_file_referencers'[f]]_vars

\* A file has backreferences of two probes, after a probe that failed.
C5_Witness ==
    /\ \E i \in DOMAIN probe_log : ~probe_log[i].ok
    /\ \E f \in DOMAIN global_file_referencers :
          \E o1, o2 \in global_file_referencers[f] :
              o1.feature_set_desc # o2.feature_set_desc

\* C6: the files of the backreference index are the files of the file set, and
\* every file has a backreference; within a run and across the session.
C6_IndicesConsistent ==
    /\ DOMAIN global_file_referencers = all_implicated_files_globally
    /\ \A f \in DOMAIN global_file_referencers : global_file_referencers[f] # { }
    /\ DOMAIN referencers_this_run = implicated_files_this_run
    /\ \A f \in DOMAIN referencers_this_run : referencers_this_run[f] # { }

\* Two probes have been folded, each adding a file the other did not name.
C6_Witness ==
    /\ pc = "probe"
    /\ probe_idx >= 3
    /\ \E f, g \in all_implicated_files_globally :
          /\ \A o \in global_file_referencers[f] : o.feature_set_desc = DescOf(1)
          /\ \A o \in global_file_referencers[g] : o.feature_set_desc = DescOf(2)

(***************************************************************************)
(* Properties of the configuration matrix                                  *)
(***************************************************************************)

MatrixBuilt == pc # "start"

\* The positions of the raw list whose canonical key no earlier position has.
FirstOfKey == { j \in DOMAIN sets : \A i \in 1..(j - 1) : SetKey(sets[i]) # SetKey(sets[j]) }

\* The n-th position of FirstOfKey, counting upwards.
NthFirstOfKey(n) == CHOOSE j \in FirstOfKey : Cardinality({ i \in FirstOfKey : i < j }) = n - 1

\* C7: the list the probe loop gets has no two configurations of one canonical
\* key; it is the raw list without the later configurations of a key already
\* seen, in the order of the raw list.
C7_NoDuplicateConfigurations ==
    MatrixBuilt =>
        /\ \A i, j \in DOMAIN feature_sets_to_check :
              SetKey(feature_sets_to_check[i]) = SetKey(feature_sets_to_check[j]) => i = j
        /\ Len(feature_sets_to_check) = Cardinality(FirstOfKey)
        /\ \A n \in DOMAIN feature_sets_to_check :
              feature_sets_to_check[n] = sets[NthFirstOfKey(n)]

\* The builder made the five configurations of a manifest with two groups.
C7_Witness ==
    /\ MatrixBuilt
    /\ Len(sets) = 5
    /\ Len(feature_sets_to_check) = 5

\* The groups of a manifest other than "default", in the order of declaration,
\* each as a configuration without the defaults.
SingleFeatureConfigurations(decl) ==
    LET named == SelectSeq(decl, LAMBDA n : n # DEFAULT)
    IN [ i \in DOMAIN named |-> << NO_DEFAULT_FEATURES, FEATURES, named[i] >> ]

Comprehensive == ~cli_features.some

\* C8: in comprehensive mode a manifest that declares feature groups gives: no
\* flags, no defaults, one single-feature configuration per group other than
\* "default" in the order of declaration, all features.
C8_ComprehensiveInDeclarationOrder ==
    (MatrixBuilt /\ Comprehensive /\ cargo_toml.state = "parsed" /\ cargo_toml.decl # << >>)
        => feature_sets_to_check =
               << << >>, << NO_DEFAULT_FEATURES >> >>
                   \o SingleFeatureConfigurations(cargo_toml.decl)
                   \o << << ALL_FEATURES >> >>

\* C9: in targeted mode, whatever the manifest, an empty focus list gives the one
\* configuration without flags and a focus list F gives --features F, then
\* --no-default-features --features F, then no flags.
C9_TargetedMatrix ==
    (MatrixBuilt /\ cli_features.some) =>
        IF cli_features.targets = << >>
        THEN feature_sets_to_check = << << >> >>
        ELSE LET F == Join(cli_features.targets, << "," >>)
             IN /\ Len(feature_sets_to_check) = 3
                /\ feature_sets_to_check[1] = << FEATURES, F >>
                /\ feature_sets_to_check[2] = << NO_DEFAULT_FEATURES, FEATURES, F >>
                /\ feature_sets_to_check[3] = << >>

\* A focus list of two features, beside a manifest that declares groups.
C9_Witness ==
    /\ MatrixBuilt
    /\ cli_features.some
    /\ Len(cli_features.targets) = 2
    /\ cargo_toml.state = "parsed"
    /\ Len(cargo_toml.decl) = 2
    /\ Len(feature_sets_to_check) = 3

\* C10: in comprehensive mode a manifest that is missing, unreadable, unparsable
\* or without feature groups gives the one configuration without flags, and the
\* builder returns Ok.
C10_ManifestFallback ==
    (MatrixBuilt /\ Comprehensive
        /\ (cargo_toml.state \in { "missing", "unreadable", "unparsable" }
               \/ cargo_toml.decl = << >>))
        => /\ builder_ok
           /\ feature_sets_to_check = << << >> >>

\* A manifest that parsed and declares no feature group.
C10_Witness ==
    /\ MatrixBuilt
    /\ Comprehensive
    /\ cargo_toml = Manifest("parsed", << >>)
    /\ feature_sets_to_check = << << >> >>

\* lines 177-188 and 358-436: the lists a session can get for an argument and a
\* manifest, one for each order in which the feature table can hand out its keys.
BuilderResults(cli, manifest) ==
    { FeatureSetsOrFallback(
          GetFeatureSetsToCheck(IF cli.some THEN TargetedSets(cli.targets)
                                ELSE ComprehensiveSets(manifest, keys)),
          cli) :
      keys \in (IF cli.some THEN { << >> } ELSE KeysOrders(manifest.decl)) }

\* The canonical keys of a list of configurations, position by position.
KeySequence(list) == [ i \in DOMAIN list |-> SetKey(list[i]) ]

\* C11: the list a run of the builder gave has the same canonical keys in the same
\* positions as the list of any other run for the same argument and manifest.
C11_BuilderDeterministic ==
    MatrixBuilt =>
        \A other \in BuilderResults(cli_features, cargo_toml) :
            KeySequence(other) = KeySequence(feature_sets_to_check)

(***************************************************************************)
(* Properties of the walker                                                *)
(***************************************************************************)

Walked == pc = "walked"

\* The nodes of a tree, parents before children, children in their order.
RECURSIVE AllNodes(_)
RECURSIVE NodesOfChildren(_)
AllNodes(node) == << node >> \o NodesOfChildren(node.children)

NodesOfChildren(children) ==
    IF children = << >> THEN << >>
    ELSE AllNodes(Head(children)) \o NodesOfChildren(Tail(children))

\* The path of a span's file, relative paths resolved against the project root.
Resolved(file_name) ==
    IF IsAbsolute(file_name) THEN file_name ELSE PathJoin(current_dir, file_name)

\* The recognized roots of external dependencies.
ExternalRoots ==
    IF cargo_home_dir.some
    THEN { RegistrySrc(cargo_home_dir.val), GitCheckouts(cargo_home_dir.val) }
    ELSE { }

\* The file of a span is a third-party file.
IsThirdParty(file_name) ==
    /\ Canonicalize(Resolved(file_name)).some
    /\ LET canonical == Canonicalize(Resolved(file_name)).val
       IN /\ ~StartsWith(canonical, current_dir)
          /\ \E root \in ExternalRoots : StartsWith(canonical, root)
          /\ canonical \in FsFiles

\* The canonical paths of the third-party files among the spans of a node.
ThirdPartyFiles(node) ==
    { Canonicalize(Resolved(node.spans[i].file_name)).val :
        i \in { n \in DOMAIN node.spans : IsThirdParty(node.spans[n].file_name) } }

\* The files a record lists.
ListedFiles(rec) == { d[1] : d \in Range(rec.implicated_third_party_files_details) }

\* C12: after the walk, the run file set and the keys of the backreference index
\* are the canonical paths of the spans whose file is a third-party file, every
\* record lists files of that set only, and none of them is under the project
\* root.
C12_ThirdPartyIffClassified ==
    Walked =>
        LET nodes == Range(AllNodes(root_diag_data))
            third_party == UNION { ThirdPartyFiles(n) : n \in nodes }
        IN /\ implicated_files_this_run = third_party
           /\ DOMAIN referencers_this_run = third_party
           /\ \A i \in DOMAIN displayable_diagnostics :
                 ListedFiles(displayable_diagnostics[i]) \subseteq third_party
           /\ \A f \in implicated_files_this_run \cup DOMAIN referencers_this_run :
                 ~StartsWith(f, current_dir)

\* The cargo home lies inside the project root and the span names a registry file
\* of it: the walk has left every set empty.
C12_Witness ==
    /\ Walked
    /\ cargo_home_dir = Some(NestedCargoHome)
    /\ StartsWith(RegistrySrc(cargo_home_dir.val), current_dir)
    /\ root_diag_data.spans = << Span(PathN, TRUE, 1) >>
    /\ Len(displayable_diagnostics) = 1
    /\ displayable_diagnostics[1].implicated_third_party_files_details = << >>
    /\ implicated_files_this_run = { }
    /\ referencers_this_run = EmptyMap

\* The test of emission: an error or a warning whose text is there and is not blank.
ShouldEmit(node) ==
    /\ node.level \in { "error", "warning" }
    /\ node.rendered.some
    /\ \E i \in DOMAIN node.rendered.val : node.rendered.val[i] # " "

\* The record is the record of the node.
RecordOf(rec, node) ==
    /\ rec.level = node.level
    /\ rec.code = (IF node.code.some THEN Some(node.code.val.code) ELSE None)
    /\ node.rendered.some
    /\ rec.rendered = TrimEnd(node.rendered.val)
    /\ rec.primary_location_of_diagnostic = PrimaryLocation(node.spans)
    /\ ListedFiles(rec) = ThirdPartyFiles(node)

\* The backreferences a file has from a node.
OriginsFrom(f, node) ==
    { o \in referencers_this_run[f] :
        /\ o.level = node.level
        /\ o.originating_diagnostic_span_location = PrimaryLocation(node.spans) }

\* C13: after the walk a node has a record iff it is an error or a warning whose
\* text is not blank, whatever its spans are; and every node, with or without a
\* record, has its third-party files in the run file set with a backreference
\* from it.
C13_EmitIffErrorOrWarningWithText ==
    Walked =>
        \A node \in Range(AllNodes(root_diag_data)) :
            /\ (\E i \in DOMAIN displayable_diagnostics :
                    RecordOf(displayable_diagnostics[i], node)) <=> ShouldEmit(node)
            /\ \A f \in ThirdPartyFiles(node) :
                  /\ f \in implicated_files_this_run
                  /\ f \in DOMAIN referencers_this_run
                  /\ OriginsFrom(f, node) # { }

\* An error whose only span names a missing file has its record, and a note
\* without a record has its registry file indexed.
C13_Witness ==
    /\ Walked
    /\ \E node \in Range(AllNodes(root_diag_data)) :
          /\ ShouldEmit(node)
          /\ node.spans # << >>
          /\ \A i \in DOMAIN node.spans :
                ~Canonicalize(Resolved(node.spans[i].file_name)).some
          /\ \E i \in DOMAIN displayable_diagnostics :
                RecordOf(displayable_diagnostics[i], node)
    /\ \E node \in Range(AllNodes(root_diag_data)) :
          /\ ~ShouldEmit(node)
          /\ ThirdPartyFiles(node) # { }
          /\ \A f \in ThirdPartyFiles(node) : OriginsFrom(f, node) # { }

\* C14: after the walk the records are, in the order of the walk, one record for
\* each node of the tree that passes the test of emission and no other record,
\* and every backreference carries the descriptor of the configuration.
C14_EveryNodeExactlyOnce ==
    Walked =>
        LET emitting == SelectSeq(AllNodes(root_diag_data), ShouldEmit)
        IN /\ Len(displayable_diagnostics) = Len(emitting)
           /\ \A i \in DOMAIN emitting : RecordOf(displayable_diagnostics[i], emitting[i])
           /\ \A f \in DOMAIN referencers_this_run :
                 \A o \in referencers_this_run[f] : o.feature_set_desc = DescOf(probe_idx)

\* A tree three levels deep whose root has two children: some of its nodes gave a
\* record, in two different levels, and some gave none.
C14_Witness ==
    /\ Walked
    /\ Len(root_diag_data.children) = 2
    /\ \A i \in DOMAIN root_diag_data.children : root_diag_data.children[i].children # << >>
    /\ Len(AllNodes(root_diag_data)) = 5
    /\ Len(displayable_diagnostics) = 3
    /\ ShouldEmit(root_diag_data)
    /\ displayable_diagnostics[1].level # displayable_diagnostics[3].level
    /\ referencers_this_run # EmptyMap

\* The (canonical path, "name:line") pairs of the third-party spans of a list.
ThirdPartyPairs(spans) ==
    { << Canonicalize(Resolved(spans[i].file_name)).val,
         Colon(FileName(Canonicalize(Resolved(spans[i].file_name)).val),
               Digits(spans[i].line_start)) >> :
        i \in { n \in DOMAIN spans : IsThirdParty(spans[n].file_name) } }

\* The order of the implicated-file list: by path, then by detail.
PairBefore(a, b) == PathLess(a[1], b[1]) \/ (a[1] = b[1] /\ StrLess(a[2], b[2]))

\* The record the walker makes of the root when its spans are replaced.
RootRecordWith(spans) ==
    ProcessSingleDiagnosticData(
        [ root_diag_data EXCEPT !.spans = spans ],
        [ diags |-> << >>, files |-> { }, refs |-> EmptyMap ],
        DescOf(probe_idx)).diags[1]

\* The rearrangements of a list, and the list twice over.
Rearranged(spans) ==
    { [ i \in DOMAIN spans |-> spans[f[i]] ] :
        f \in { g \in [DOMAIN spans -> DOMAIN spans] :
                  \A i, j \in DOMAIN spans : g[i] = g[j] => i = j } }
        \cup { spans \o spans }

\* The pairs of the spans of the children of a node.
PairsOfChildren(node) ==
    UNION { ThirdPartyPairs(node.children[i].spans) : i \in DOMAIN node.children }

\* C15: the implicated-file list of every record is strictly ascending by (path,
\* detail), so no pair is in it twice; the list of the root's record holds the
\* pairs of the root's third-party spans, it is the same list and signature for
\* every rearrangement and for a repetition of the spans, and a pair that a child
\* names too is in it once.
C15_ImplicatedListSortedUnique ==
    Walked =>
        /\ \A r \in DOMAIN displayable_diagnostics :
              LET details == displayable_diagnostics[r].implicated_third_party_files_details
              IN \A a, b \in DOMAIN details :
                    a < b => PairBefore(details[a], details[b])
        /\ ShouldEmit(root_diag_data) =>
              LET rec == displayable_diagnostics[1]
                  details == rec.implicated_third_party_files_details
              IN /\ Range(details) = ThirdPartyPairs(root_diag_data.spans)
                 /\ \A spans \in Rearranged(root_diag_data.spans) :
                       LET other == RootRecordWith(spans)
                       IN /\ other.implicated_third_party_files_details = details
                          /\ GetImplicatedFilesSignature(other)
                                 = GetImplicatedFilesSignature(rec)
                 /\ \A pair \in PairsOfChildren(root_diag_data) \cap Range(details) :
                       Cardinality({ a \in DOMAIN details : details[a] = pair }) = 1

\* The spans of the root name b, then a through the link, then a: the list is a
\* then b, a once, and the child note names a too.
C15_Witness ==
    /\ Walked
    /\ cargo_home_dir = Some(CargoHome)
    /\ root_diag_data.spans =
           << Span(PathB, TRUE, 1), Span(PathL, FALSE, 2), Span(PathA, FALSE, 2) >>
    /\ root_diag_data.children # << >>
    /\ PairsOfChildren(root_diag_data) = { << PathA, << "a", ":", "2" >> >> }
    /\ displayable_diagnostics[1].implicated_third_party_files_details =
           << << PathA, << "a", ":", "2" >> >>, << PathB, << "b", ":", "1" >> >> >>

(***************************************************************************)
(* Properties of the probes                                                *)
(***************************************************************************)

\* The step folds the probe of a cargo that could not be started.
FoldsFailedProbe ==
    /\ probe_idx' = probe_idx + 1
    /\ ~probe_log[probe_idx].ok

\* The step adds, for the configuration probed, exactly one record, synthetic and
\* with the given location, and leaves the file set and the backreferences alone.
AddsToolError(location) ==
    /\ Len(all_displayable_diagnostics') = Len(all_displayable_diagnostics) + 1
    /\ SubSeq(all_displayable_diagnostics', 1, Len(all_displayable_diagnostics))
           = all_displayable_diagnostics
    /\ LET added == all_displayable_diagnostics'[Len(all_displayable_diagnostics')]
       IN /\ added[1] = DescOf(probe_idx)
          /\ Len(added[2]) = 1
          /\ added[2][1].level = "TOOL_ERROR"
          /\ added[2][1].code = None
          /\ added[2][1].primary_location_of_diagnostic = location
          /\ added[2][1].rendered =
                 ERROR_RUNNING \o DescOf(probe_idx) \o << "'", ":", " " >>
                     \o probe_log[probe_idx].err
          /\ added[2][1].implicated_third_party_files_details = << >>
    /\ all_implicated_files_globally' = all_implicated_files_globally
    /\ global_file_referencers' = global_file_referencers

\* C16 as stated: the probe of a cargo that could not be started adds exactly one
\* record of level TOOL_ERROR, without code, with an empty primary location, the
\* failure text in its message and no implicated file, and adds nothing to the
\* file set and the backreferences.
C16_ToolErrorEmptyLocation ==
    [][FoldsFailedProbe => AddsToolError(<< >>)]_vars

\* C16 amended: the same, the primary location being the text "N/A" and the
\* message "Error running cargo check with configuration '<descriptor>': " and
\* then the failure text.
C16_ToolErrorRecord ==
    [][FoldsFailedProbe => AddsToolError(<< "N", "/", "A" >>)]_vars

\* A probe has filled the file set, and the probe after it could not be started
\* and has been folded.
C16_Witness ==
    /\ pc = "probe"
    /\ probe_idx = 3
    /\ probe_log[1].ok
    /\ ~probe_log[2].ok
    /\ all_implicated_files_globally # { }
    /\ Len(all_displayable_diagnostics) = 2
    /\ all_displayable_diagnostics[2][2][1].level = "TOOL_ERROR"

\* Cargo started for probe i and printed lines, none of which decodes as a
\* structured message.
Undecodable(i) ==
    /\ probe_log[i].ok
    /\ probe_log[i].lines # << >>
    /\ \A n \in DOMAIN probe_log[i].lines : ~FromStr(probe_log[i].lines[n]).some

\* The results of probe i are in the accumulators of the session.
Folded(i) == i < probe_idx

\* C17: a folded probe whose stream did not decode at all has given one synthetic
\* record of level TOOL_ERROR under the descriptor of its configuration.
C17_UndecodableStreamGivesToolError ==
    \A i \in DOMAIN probe_log :
        (Folded(i) /\ Undecodable(i)) =>
            \E e \in DOMAIN all_displayable_diagnostics :
                /\ all_displayable_diagnostics[e][1] = DescOf(i)
                /\ Len(all_displayable_diagnostics[e][2]) = 1
                /\ all_displayable_diagnostics[e][2][1].level = "TOOL_ERROR"

\* The probe loop is over.
ProbesOver == pc \notin { "start", "probe", "decode", "failed" }

\* C18: the i-th probe is the probe of the i-th configuration of the list; at
\* most one probe is under way and every probe before it has been folded; a probe
\* starts only when none is under way, as the next entry of the history, whose
\* earlier entries stay as they are; and when the loop is over every
\* configuration has been probed, whichever probes failed.
C18_ProbesSequentialAndComplete ==
    /\ [](MatrixBuilt =>
            /\ Len(probe_log) <= Len(feature_sets_to_check)
            /\ \A i \in DOMAIN probe_log : probe_log[i].args = feature_sets_to_check[i]
            /\ Len(probe_log) = (IF pc \in { "decode", "failed" } THEN probe_idx
                                 ELSE probe_idx - 1)
            /\ ProbesOver => Len(probe_log) = Len(feature_sets_to_check))
    /\ [][/\ MatrixBuilt => feature_sets_to_check' = feature_sets_to_check
          /\ probe_log' # probe_log =>
                /\ pc = "probe"
                /\ pc' \in { "decode", "failed" }
                /\ Len(probe_log') = Len(probe_log) + 1
                /\ SubSeq(probe_log', 1, Len(probe_log)) = probe_log
          /\ probe_idx' # probe_idx =>
                /\ pc \in { "decode", "failed" }
                /\ pc' = "probe"
                /\ probe_idx' = probe_idx + 1]_vars

\* A session of three configurations is over: the first and the last probe could
\* not be started, the second ran.
C18_Witness ==
    /\ pc = "done"
    /\ Len(feature_sets_to_check) = 3
    /\ Len(probe_log) = 3
    /\ ~probe_log[1].ok
    /\ probe_log[2].ok
    /\ ~probe_log[3].ok

(***************************************************************************)
(* Properties of the end of the session                                    *)
(***************************************************************************)

\* The consolidation of the records of a run, and of a list of runs.
RECURSIVE ConsolidateRecords(_, _, _)
ConsolidateRecords(map, feature_desc, records) ==
    IF records = << >> THEN map
    ELSE ConsolidateRecords(Consolidate(map, Head(records), feature_desc),
                            feature_desc, Tail(records))

RECURSIVE ConsolidateRuns(_, _)
ConsolidateRuns(map, runs) ==
    IF runs = << >> THEN map
    ELSE ConsolidateRuns(ConsolidateRecords(map, Head(runs)[1], Head(runs)[2]), Tail(runs))

\* The runs of the session in every order in which their configurations can be
\* probed.
ProbeOrders ==
    { [ i \in DOMAIN all_displayable_diagnostics |-> all_displayable_diagnostics[f[i]] ] :
        f \in { g \in [DOMAIN all_displayable_diagnostics ->
                         DOMAIN all_displayable_diagnostics] :
                  \A i, j \in DOMAIN all_displayable_diagnostics : g[i] = g[j] => i = j } }

\* The final lists a session can end with that folds the runs in the given order.
FinalLists(runs) == SortedArrangements(IntoValues(ConsolidateRuns(EmptyMap, runs)))

Sorted == pc \in { "sorted", "done" }

\* C19: the final list is ascending by (primary location, code, rendered text),
\* and it is the final list, entry by entry, of every session that probes the
\* same configurations in any order.
C19_SortedAndProbeOrderIndependent ==
    Sorted =>
        /\ \A i, j \in DOMAIN sorted_consolidated_diagnostics :
              i < j => ~AggregatedLess(sorted_consolidated_diagnostics[j],
                                       sorted_consolidated_diagnostics[i])
        /\ \A runs \in ProbeOrders :
              \A list \in FinalLists(runs) : list = sorted_consolidated_diagnostics

\* main has returned.
Exited == pc \in { "minimal_report", "done" }

\* C20 as stated: a session that wrote its report, minimal or full, exits with 0,
\* and a session that exits with another code has no document.
C20_NonZeroOnlyWithoutDocument ==
    Exited =>
        /\ report \in { "minimal", "full" } => exit_code = 0
        /\ exit_code # 0 => report = "none"

\* C20 amended: a session that wrote its report, minimal or full, exits with 0; a
\* session whose document could not be created exits with 1 and leaves none; a
\* session that exits with another code than 0 leaves no document or one that a
\* failed write cut short; and the exit code is set by the step that writes the
\* report and by no other, whatever the builder and the probes met.
C20_ExitCode ==
    /\ [](IF Exited
          THEN /\ exit_code \in { 0, 1 }
               /\ report \in { "minimal", "full" } => exit_code = 0
               /\ report = "none" => exit_code = 1
               /\ exit_code # 0 => report \in { "none", "partial" }
          ELSE exit_code = -1 /\ report = "none")
    /\ [][(exit_code' # exit_code \/ report' # report) =>
             (pc \in { "probe", "sorted" } /\ Exited')]_vars

\* After a probe that could not be started, the document was created and a write
\* to it failed: the session exits with 1 and leaves a part of the report.
C20_Witness ==
    /\ pc = "done"
    /\ \E i \in DOMAIN probe_log : ~probe_log[i].ok
    /\ report = "partial"
    /\ exit_code = 1

(***************************************************************************)
(* Properties of the report                                                *)
(***************************************************************************)

ReportWritten == pc = "done" /\ report = "full"

\* The files of the global set that have no entry in the extracted data.
Unextracted == { f \in all_implicated_files_globally : f \notin DOMAIN extracted_data }

\* The report has a section of the file f that lists the backreferences of f.
HasSection(f) ==
    \E i \in DOMAIN file_sections :
        /\ file_sections[i].file = f
        /\ f \in DOMAIN global_file_referencers
        /\ Range(file_sections[i].origins) = global_file_referencers[f]

\* C21: every third-party file of the global file set whose extraction fails or
\* yields no item has its own section in the report, with its backreferences,
\* also when nothing is extracted from any implicated file.
C21_UnextractedFilesKeepTheirSection ==
    ReportWritten => \A f \in Unextracted : HasSection(f)

(***************************************************************************)
(* Termination                                                             *)
(***************************************************************************)

\* Both reports begin with File::create("report.md"): a session that has gone
\* through MinimalReport or GenerateReport has attempted to create the document.
ReportAttempted == pc \in { "minimal_report", "done" }

\* C22: with a cargo that returns from every run and finite trees the session
\* terminates, and whatever failed on the way (probes, lines, the manifest, the
\* classification of spans, the extraction) it has attempted to create the report
\* document when it terminates.
C22_TerminatesAfterReportAttempt ==
    /\ <>Returned
    /\ [](Returned => ReportAttempted)

\* A session is over in which the manifest is missing, the first probe could not be
\* started, the second printed a line that is no message and a diagnostic that
\* implicates a file which does not parse.
C22_Witness ==
    /\ Returned
    /\ ReportAttempted
    /\ cargo_toml.state = "missing"
    /\ Len(probe_log) = 3
    /\ ~probe_log[1].ok
    /\ probe_log[2].lines = << "text", "one" >>
    /\ PathAB \in all_implicated_files_globally
    /\ ~ExtractItemsFromFile(PathAB).ok

(***************************************************************************)
(* Properties of the primary location and of the backreferences            *)
(***************************************************************************)

\* 'path:line' of a span.
PathLine(span) == Colon(DisplayPath(span.file_name), Digits(span.line_start))

\* The location a node has by its own spans: the first primary span, or else the
\* first span marked as not primary, or else the literal.
OwnLocation(node) ==
    LET primaries == { i \in DOMAIN node.spans : node.spans[i].is_primary }
    IN IF primaries # { }
       THEN PathLine(node.spans[CHOOSE i \in primaries : \A j \in primaries : i <= j])
       ELSE IF node.spans # << >>
            THEN PathLine(node.spans[1]) \o NON_PRIMARY
            ELSE UNKNOWN_LOCATION

\* C23: after the walk the record of every emitting node carries the location of
\* the node's own spans (the first primary span as 'path:line', or else the first
\* span as 'path:line (non-primary)', or else 'Unknown diagnostic location'), and
\* so does a backreference of every third-party file of every node.
C23_PrimaryLocationFromOwnSpans ==
    Walked =>
        LET emitting == SelectSeq(AllNodes(root_diag_data), ShouldEmit)
        IN /\ Len(displayable_diagnostics) = Len(emitting)
           /\ \A i \in DOMAIN emitting :
                 displayable_diagnostics[i].primary_location_of_diagnostic
                     = OwnLocation(emitting[i])
           /\ \A node \in Range(AllNodes(root_diag_data)) :
                 \A f \in ThirdPartyFiles(node) :
                     \E o \in referencers_this_run[f] :
                         /\ o.level = node.level
                         /\ o.originating_diagnostic_span_location = OwnLocation(node)

\* An error with two primary spans at different places has the place of the first
\* in its record.
C23_Witness ==
    /\ Walked
    /\ Len(root_diag_data.spans) = 3
    /\ ~root_diag_data.spans[1].is_primary
    /\ root_diag_data.spans[2].is_primary
    /\ root_diag_data.spans[3].is_primary
    /\ PathLine(root_diag_data.spans[2]) # PathLine(root_diag_data.spans[3])
    /\ Len(displayable_diagnostics) = 1
    /\ displayable_diagnostics[1].primary_location_of_diagnostic
           = PathLine(root_diag_data.spans[2])

\* The FileOriginRecord of a node under the configuration of the probe.
OriginOf(node) ==
    [ level |-> node.level,
      code |-> IF node.code.some THEN Some(node.code.val.code) ELSE None,
      originating_diagnostic_span_location |-> OwnLocation(node),
      feature_set_desc |-> DescOf(probe_idx) ]

\* C24: after the walk every third-party file of a span of a node is in the file
\* set of the run and has in its backreference set the record with the level and
\* the code of that node, that node's own primary location and the descriptor of
\* the probe; and every backreference of the index is the record of a node that
\* has a span in that file.
C24_BackreferencesFromSpans ==
    Walked =>
        LET nodes == Range(AllNodes(root_diag_data))
        IN /\ \A node \in nodes :
                 \A f \in ThirdPartyFiles(node) :
                     /\ f \in implicated_files_this_run
                     /\ f \in DOMAIN referencers_this_run
                     /\ OriginOf(node) \in referencers_this_run[f]
           /\ \A f \in DOMAIN referencers_this_run :
                 \A o \in referencers_this_run[f] :
                     \E node \in nodes : f \in ThirdPartyFiles(node) /\ o = OriginOf(node)

\* An error with a code has a non-primary span in a registry file and its primary
\* span elsewhere, and its child note has a non-primary span in the same file: the
\* file has the two backreferences, each with the location of its own node, which
\* is neither the position of the span nor the location of the parent.
C24_Witness ==
    /\ Walked
    /\ root_diag_data.code.some
    /\ Len(root_diag_data.spans) = 2
    /\ root_diag_data.spans[1] = Span(PathA, FALSE, 2)
    /\ root_diag_data.spans[2].is_primary
    /\ Len(root_diag_data.children) = 1
    /\ root_diag_data.children[1].spans = << Span(PathA, FALSE, 10) >>
    /\ referencers_this_run[PathA]
           = { OriginOf(root_diag_data), OriginOf(root_diag_data.children[1]) }
    /\ OriginOf(root_diag_data).originating_diagnostic_span_location
           = PathLine(root_diag_data.spans[2])
    /\ OriginOf(root_diag_data.children[1]).originating_diagnostic_span_location
           = PathLine(Span(PathA, FALSE, 10)) \o NON_PRIMARY

(***************************************************************************)
(* Properties of the decoding of the stream                                *)
(***************************************************************************)

\* The line decodes, on its own, as a message that carries a diagnostic.
CarriesDiagnostic(line) ==
    /\ FromStr(line).some
    /\ FromStr(line).val.reason = "compiler-message"
    /\ FromStr(line).val.message.some

\* The walker on the trees of the lines, one after the other.
RECURSIVE WalkLines(_, _, _)
WalkLines(lines, acc, feature_desc) ==
    IF lines = << >> THEN acc
    ELSE WalkLines(Tail(lines),
                   ProcessSingleDiagnosticData(FromStr(Head(lines)).val.message.val,
                                               acc, feature_desc),
                   feature_desc)

\* C25: while a probe decodes its stream, its records and its index are what the
\* walker gives on the lines read so far that decode as a message with a
\* diagnostic, each once and in the order of the stream; the other lines leave no
\* trace.
C25_DiagnosticLinesForwardedOnce ==
    pc = "decode" =>
        LET read == SubSeq(cargo_output.lines, 1, line_idx - 1)
            acc == WalkLines(SelectSeq(read, CarriesDiagnostic),
                             [ diags |-> << >>, files |-> { }, refs |-> EmptyMap ],
                             DescOf(probe_idx))
        IN /\ displayable_diagnostics = acc.diags
           /\ implicated_files_this_run = acc.files
           /\ referencers_this_run = acc.refs

(***************************************************************************)
(* Properties of the explanation map                                       *)
(***************************************************************************)

\* The processed records that carry the code with an explanation that is not
\* blank.
Explaining(code) ==
    { p \in Processed :
        /\ p.rec.code = Some(code)
        /\ p.rec.code_explanation.some
        /\ \E i \in DOMAIN p.rec.code_explanation.val : p.rec.code_explanation.val[i] # " " }

\* The codes of the processed records.
ProcessedCodes == { p.rec.code.val : p \in { q \in Processed : q.rec.code.some } }

\* C26: at every point of the consolidation the explanation map has an entry for
\* exactly the codes that some processed record carries with an explanation that
\* is not blank, and the entry is the explanation of the first such record in
\* probe order and then record order.
C26_FirstExplanationKept ==
    Consolidating =>
        /\ DOMAIN unique_explanations = { c \in ProcessedCodes : Explaining(c) # { } }
        /\ \A c \in DOMAIN unique_explanations :
              \E p \in Explaining(c) :
                  /\ \A q \in Explaining(c) : q = p \/ Earlier(p, q)
                  /\ unique_explanations[c] = p.rec.code_explanation.val

\* A code met first with a blank explanation and with none, then with an
\* explanation, then with another one: the map has the first that is not blank.
C26_Witness ==
    /\ pc = "consolidated"
    /\ \E p \in Processed, q \in Explaining(E1), r \in Explaining(E1) :
          /\ p.rec.code = Some(E1)
          /\ p.rec.code_explanation = Some(<< " " >>)
          /\ Earlier(p, q)
          /\ Earlier(q, r)
          /\ q.rec.code_explanation # r.rec.code_explanation
          /\ unique_explanations[E1] = q.rec.code_explanation.val
    /\ E2 \in ProcessedCodes
    /\ E2 \notin DOMAIN unique_explanations

(***************************************************************************)
(* Properties of the folding of the probes                                 *)
(***************************************************************************)

\* The loop is at its head and the next probe is about to start.
NextProbeStarts == pc = "probe" /\ 1 < probe_idx /\ probe_idx <= Len(feature_sets_to_check)

\* The accumulators of the session that the probes share.
shared ==
    << all_displayable_diagnostics, all_implicated_files_globally, global_file_referencers,
       consolidated_diagnostic_instances, unique_explanations >>

\* A step that runs cargo or decodes a line of its output.
ProbeStep == (pc = "probe" /\ pc' \in { "decode", "failed" }) \/ (pc = "decode" /\ pc' = "decode")

\* The records of the folded probes are in the consolidated map and their
\* explanations in the explanation map.
FoldedIntoMaps ==
    \A e \in DOMAIN all_displayable_diagnostics :
        \A n \in DOMAIN all_displayable_diagnostics[e][2] :
            LET rec == all_displayable_diagnostics[e][2][n]
            IN /\ \E k \in DOMAIN consolidated_diagnostic_instances :
                     /\ EntryIdentity(consolidated_diagnostic_instances[k]) = RecordIdentity(rec)
                     /\ all_displayable_diagnostics[e][1] \in
                            consolidated_diagnostic_instances[k].feature_set_descriptors
               /\ (rec.code.some /\ rec.code_explanation.some
                       /\ ~TrimIsEmpty(rec.code_explanation.val))
                      => rec.code.val \in DOMAIN unique_explanations

\* The results of the probe before the head of the loop are in the record list,
\* the global file set and the backreference index of the session.
FoldedIntoSession ==
    (pc = "probe" /\ 1 < probe_idx /\ probe_log[probe_idx - 1].ok) =>
        /\ displayable_diagnostics # << >> =>
              /\ all_displayable_diagnostics # << >>
              /\ all_displayable_diagnostics[Len(all_displayable_diagnostics)]
                     = << DescOf(probe_idx - 1), displayable_diagnostics >>
        /\ implicated_files_this_run \subseteq all_implicated_files_globally
        /\ \A f \in DOMAIN referencers_this_run :
              /\ f \in DOMAIN global_file_referencers
              /\ referencers_this_run[f] \subseteq global_file_referencers[f]

\* C27 as stated: when probe i+1 starts the records of the probes before it are
\* in the consolidated map and the explanation map, and no step of a probe changes
\* a shared accumulator.
C27_FoldedIntoMapsBeforeNextProbe ==
    /\ [](NextProbeStarts => FoldedIntoMaps)
    /\ [][ProbeStep => UNCHANGED shared]_vars

\* C27: when a probe has been folded its records are in the record list of the
\* session and its files and backreferences in the global file set and index; the
\* consolidated map and the explanation map stay empty until the probe loop is
\* over; and no step of a probe changes a shared accumulator.
C27_FoldedIntoSessionBeforeNextProbe ==
    /\ [](FoldedIntoSession)
    /\ [](~ProbesOver => (/\ consolidated_diagnostic_instances = EmptyMap
                          /\ unique_explanations = EmptyMap))
    /\ [][ProbeStep => UNCHANGED shared]_vars

\* The second probe is about to start, the first gave records and third-party
\* files, and the two maps are still empty.
C27_Witness ==
    /\ NextProbeStarts
    /\ probe_idx = 2
    /\ Len(all_displayable_diagnostics) = 1
    /\ Len(all_displayable_diagnostics[1][2]) > 1
    /\ all_implicated_files_globally # { }
    /\ consolidated_diagnostic_instances = EmptyMap
    /\ unique_explanations = EmptyMap

(***************************************************************************)
(* Properties of the synthetic records                                     *)
(***************************************************************************)

\* The probes of the session that could not be started.
FailedProbes == { i \in DOMAIN probe_log : ~probe_log[i].ok }

\* The aggregated diagnostics of level TOOL_ERROR.
ToolErrorEntries ==
    { k \in DOMAIN consolidated_diagnostic_instances :
        consolidated_diagnostic_instances[k].level = "TOOL_ERROR" }

\* C28: after consolidation every failed configuration has an aggregated diagnostic
\* of level TOOL_ERROR of its own, whose descriptor set is that configuration
\* alone and whose text names it; there are as many such entries as failed
\* configurations, and no record of the compiler is in one of them.
C28_ToolErrorsNeverMerge ==
    pc = "consolidated" =>
        /\ \A i \in FailedProbes :
              \E k \in ToolErrorEntries :
                  /\ consolidated_diagnostic_instances[k].feature_set_descriptors
                         = { DescOf(i) }
                  /\ consolidated_diagnostic_instances[k].rendered_message
                         = ERROR_RUNNING \o DescOf(i) \o << "'", ":", " " >>
                               \o probe_log[i].err
        /\ Cardinality(ToolErrorEntries) = Cardinality(FailedProbes)
        /\ \A p \in Processed :
              p.rec.level # "TOOL_ERROR" => EntriesOf(p) \cap ToolErrorEntries = { }

\* Two configurations failed and one gave compiler records: two synthetic entries
\* beside the entries of the compiler.
C28_Witness ==
    /\ pc = "consolidated"
    /\ Cardinality(FailedProbes) = 2
    /\ Cardinality(ToolErrorEntries) = 2
    /\ \E p \in Processed : p.rec.level = "error"

(***************************************************************************)
(* Properties of the choice of the report                                  *)
(***************************************************************************)

\* The line was handed to the walker.
Forwarded(line) ==
    /\ DecodeMessage(line).some
    /\ DecodeMessage(line).val.reason = "compiler-message"
    /\ DecodeMessage(line).val.message.some

\* Every probe ran, and no node of a tree that was walked gave a record or has a
\* span in a third-party file.
Quiet ==
    \A i \in DOMAIN probe_log :
        /\ probe_log[i].ok
        /\ \A n \in { m \in DOMAIN probe_log[i].lines : Forwarded(probe_log[i].lines[m]) } :
              \A node \in Range(AllNodes(DiagnosticOf(probe_log[i].lines[n]))) :
                  ~ShouldEmit(node) /\ ThirdPartyFiles(node) = { }

\* C29: once the probes are over the session is on the path of the minimal report
\* iff no probe failed and no walked node gave a record or has a third-party
\* span; on that path nothing is consolidated, sorted or extracted and the only
\* document is the minimal one, and on the other path the only document is the
\* full one.
C29_MinimalReportIffNothingFound ==
    ProbesOver =>
        /\ pc = "minimal_report" <=> Quiet
        /\ pc = "minimal_report" =>
              /\ consolidated_diagnostic_instances = EmptyMap
              /\ unique_explanations = EmptyMap
              /\ sorted_consolidated_diagnostics = << >>
              /\ sorted_file_paths = << >>
              /\ extracted_data = EmptyMap
              /\ report # "full"
        /\ pc # "minimal_report" => report # "minimal"

\* The only tree of the session is a note that gives no record and has a span in
\* a git checkout: the full report is written.
C29_Witness ==
    /\ pc = "done"
    /\ report = "full"
    /\ FailedProbes = { }
    /\ all_displayable_diagnostics = << >>
    /\ all_implicated_files_globally = { PathG }

====
